---- MODULE Spec2Model ----
(***************************************************************************)
(* A model of the session layer of the jay compositor:                     *)
(*   - the allocation of the listening socket (src/acceptor.rs,            *)
(*     allocate_socket, bind_socket, AllocatedSocket::drop), by several    *)
(*     server instances that share one runtime directory, one system call  *)
(*     per step;                                                           *)
(*   - the Acceptor (install, dispatch, drop);                             *)
(*   - the primary-selection device                                        *)
(*     (src/ifs/ipc/zwp_primary_selection_device_v1.rs).                   *)
(* Each part has its own specification (SpecAlloc, SpecAccept, SpecSel);   *)
(* the variables of the other parts keep their initial values.             *)
(***************************************************************************)
EXTENDS Integers, Sequences, FiniteSets, TLC

(***************************************************************************)
(* Bounds of the model.                                                    *)
(***************************************************************************)
\* Server instances (processes) that share the runtime directory.
NumProcs == 2
\* The last candidate index: stands for the 999 of `for i in 1..1000`.
LastIndex == 2

\* Connections that clients make to the listening socket.
MaxConns == 3

\* Clients of the compositor, their primary-selection devices and sources.
NumClients == 2
NumDevices == 3
NumSources == 2
\* Serials the seat issues, and in SerialArgs one more that it never issued.
MaxSerial == 2
\* Selection changes (set_selection that reaches the seat, unset) in a run.
MaxChanges == 2
\* Devices that are destroyed in a run.
MaxDestroys == 1
\* OfferRequestData requests that are forwarded, and the offers they name.
MaxRequests == 1
MaxOffers == 4
\* Seats and keymaps the configuration creates, and responses it is sent.
MaxSeats == 2
MaxKeymaps == 2
MaxResponses == 2
\* Method calls of the D-Bus socket that wait for a reply, and the messages
\* its incoming task is given.
NumCalls == 2
MaxMsgs == 3

Procs == 1..NumProcs
Indices == 1..LastIndex
Clients == 1..NumClients
DeviceIds == 1..NumDevices
SourceIds == 1..NumSources
SerialArgs == 1..(MaxSerial + 1)
MimeTypes == {"text/plain", "image/png"}
SeatIds == 1..MaxSeats
KeymapIds == 1..MaxKeymaps
\* The input devices of the backend, and one more that does not exist.
InputDevices == {"Keyboard1", "Mouse1"}
DeviceArgs == InputDevices \cup {"Keyboard2"}
\* Seat::INVALID and Keymap::INVALID, the ids that name no object, and the
\* first id the handler issues.
SeatInvalid == 0
KeymapInvalid == 0
FirstId == 1
SeatArgs == {SeatInvalid} \cup SeatIds
KeymapArgs == {KeymapInvalid} \cup KeymapIds
RateArgs == {<<25, 250>>, <<40, 200>>, <<-1, 250>>, <<25, -1>>}
Axes == {"Horizontal", "Vertical"}
ShortcutArgs == {"Alt+x"}
Directions == {"Left", "Right"}
Advertised == {"text/plain"}

(***************************************************************************)
(* Program constants.                                                      *)
(***************************************************************************)
\* addr.sun_path.len(): the size of sockaddr_un.sun_path.
SunPathLen == 108
\* The length of "wayland-".
NamePrefixLen == 8
\* The lengths of XDG_RUNTIME_DIR the model tries: the longest directory
\* whose one-digit socket paths fit, and the shortest for which none fits.
XrdLens == {97, 98}
\* The environment of an instance: XDG_RUNTIME_DIR is not set (-1), or its length.
Envs == {-1} \cup XrdLens

VARIABLES
    \* ---- the runtime directory, shared by all instances ----
    bad,        \* indices the environment makes unusable (open, lstat or bind fails)
    sockFile,   \* index -> who bound the socket file at wayland-<i>: an instance,
                \* 0: no file, -1: the leftover of an instance that is gone
    lockIno,    \* index -> inode linked at wayland-<i>.lock (0: no file)
    \* ---- one server instance each ----
    env,        \* the XDG_RUNTIME_DIR of the instance
    pc,         \* position of the instance in allocate_socket / drop
    idx,        \* the loop variable i of allocate_socket
    sock,       \* the instance holds the socket descriptor fd
    lfd,        \* inode behind the open lock descriptor lock_fd (0: none)
    lockHeld,   \* the instance holds the flock on lfd
    result,     \* what allocate_socket returned
    errs,       \* the errors bind_socket returned in this call, one per candidate
    quiet       \* no other instance took a step since this call began

VARIABLES
    \* ---- the Acceptor of one instance ----
    accState,   \* "Unregistered", "Listening" or "Removed"
    registered, \* the event loop holds the Acceptor under its id
    bound,      \* the socket path of the AllocatedSocket exists
    lockPath,   \* the lock path of the AllocatedSocket exists
    lockFd,     \* _lock_fd is open: the flock is held
    listening,  \* uapi::listen succeeded on the socket
    name,       \* the index i of AllocatedSocket.name, wayland-<i> (0: none)
    ipc,        \* position in Acceptor::install
    installRet, \* what Acceptor::install returned
    retName,    \* the index of the name install returned (0: none)
    tpc,        \* position in the drop of the Acceptor and of its socket
    pending,    \* connections waiting in the listen queue
    conns,      \* connections made so far
    clientIds,  \* ids handed out by clients.id()
    spawned,    \* the client ids whose handler was spawned
    dpc,        \* position in Acceptor::dispatch
    dret,       \* what dispatch returned
    wake        \* this wake: its readiness mask, and the connections accepted,
                \* spawned and failed to spawn

allocVars == <<bad, sockFile, lockIno, env, pc, idx, sock, lfd, lockHeld, result,
               errs, quiet>>

accVars == <<accState, registered, bound, lockPath, lockFd, listening, name, ipc,
             installRet, retName, tpc, pending, conns, clientIds, spawned, dpc, dret, wake>>

VARIABLES
    \* ---- one seat, its primary selection and the clients ----
    issued,     \* client -> the serials the seat stamped on events sent to it
    serials,    \* the last serial issued
    srcState,   \* source -> "none", "created", "active", "cancelled" or "destroyed"
    seatDevs,   \* the seat's primary-selection devices
    destroyed,  \* the devices that were destroyed; their ids are not used again
    isXwm,      \* device -> DeviceData.is_xwm
    devSel,     \* device -> offer_id of DeviceData.selection (0: none)
    selection,  \* the seat's active primary-selection source (0: none)
    selSerial,  \* the serial of the last accepted selection change
    dndActive,  \* a drag-and-drop holds the seat
    offers,     \* the offers created so far, offers[k].offer_id = k
    objIds,     \* client -> the last object id client.new_id() returned
    events,     \* client -> the wire events queued to the client
    xqueue,     \* state.xwayland.queue
    changes,    \* selection changes so far
    req         \* the request or event handled last, with the handler's result

selVars == <<issued, serials, srcState, seatDevs, destroyed, isXwm, devSel, selection, selSerial,
             dndActive, offers, objIds, events, xqueue, changes, req>>

VARIABLES
    \* ---- the legacy X11 bridge, the consumer of state.xwayland.queue ----
    xseen       \* the events the bridge has taken from the queue, in its order

bridgeVars == <<xseen>>

VARIABLES
    \* ---- the offers as their clients use them (section 4.3) ----
    offerSrc,   \* offer_id -> the source the offer still forwards to (0: stale)
    mimes,      \* source -> the mime types its client advertised
    forwarded,  \* the requests forwarded to the clients of the sources, in order
    oreq        \* the last OfferRequestData: the offer and the mime type

offerVars == <<offerSrc, mimes, forwarded, oreq>>

VARIABLES
    \* ---- the ConfigProxyHandler and the state its requests reach ----
    cfgSeats,   \* the ids of the seats in state.globals.seats
    seatKeymap, \* seat -> the keymap set on it (0: the default keymap)
    seatRate,   \* seat -> <<rate, delay>>
    seatSplit,  \* seat -> "None", "Horizontal" or "Vertical"
    shortcuts,  \* seat -> its shortcuts
    keymaps,    \* the ids in ConfigProxyHandler::keymaps
    attach,     \* input device -> the seat it is attached to (0: none)
    next_id,    \* ConfigProxyHandler::next_id
    responses,  \* the ServerMessages handed to handle_msg, in order
    creq        \* the last request: its kind, the result of handle_request_,
                \* whether handle_request logged it

cfgVars == <<cfgSeats, seatKeymap, seatRate, seatSplit, shortcuts, keymaps, attach, next_id,
             responses, creq>>

\* The variables outside the primary-selection engine.
VARIABLES
    \* ---- the incoming half of one DbusSocket (dbus/incoming.rs) ----
    dead,           \* socket.dead
    kills,          \* the calls of socket.kill() made by Incoming::run
    reply_handlers, \* serial -> the signature its reply handler expects, or NoHandler
    signal_handlers,\* the members that have a signal handler
    invoked,        \* serial -> how often its reply handler was invoked
    dfds,           \* the length of incoming.fds
    dpos,           \* where Incoming::run is: "top", "await", "returned" or "panicked"
    nmsgs,          \* the messages handle_msg has been given
    dlast           \* the last message, with what handle_msg made of it

dbusVars == <<dead, kills, reply_handlers, signal_handlers, invoked, dfds, dpos, nmsgs, dlast>>

VARIABLES parent, parent_ws, parent_abs, positioner, relative_position,
          absolute_desired_extents, display_link, workspace_link, ws_stacked, root_stacked,
          popup_done, popup, plast, pmoves

popVars == <<parent, parent_ws, parent_abs, positioner, relative_position,
             absolute_desired_extents, display_link, workspace_link, ws_stacked, root_stacked,
             popup_done, popup, plast, pmoves>>

VARIABLES seat_state, dev_state, ierrors, ievents, ilast, ireqs

inpVars == <<seat_state, dev_state, ierrors, ievents, ilast, ireqs>>

VARIABLES bpc, x_err, metal_err, ticks, el_stopped, blog

bkVars == <<bpc, x_err, metal_err, ticks, el_stopped, blog>>

hostVars == <<allocVars, accVars, cfgVars, dbusVars, popVars, inpVars, bkVars>>

vars == <<allocVars, accVars, selVars, bridgeVars, offerVars, cfgVars, dbusVars, popVars,
          inpVars, bkVars>>

OnlyAlloc == UNCHANGED <<accVars, selVars, bridgeVars, offerVars, cfgVars, dbusVars, popVars,
                         inpVars, bkVars>>

OnlyAcc == UNCHANGED <<allocVars, selVars, bridgeVars, offerVars, cfgVars, dbusVars, popVars, inpVars, bkVars>>

OnlySel == UNCHANGED <<hostVars, bridgeVars, offerVars>>

OnlyCfg == UNCHANGED <<allocVars, accVars, selVars, bridgeVars, offerVars, dbusVars, popVars, inpVars, bkVars>>

OnlyDbus == UNCHANGED <<allocVars, accVars, selVars, bridgeVars, offerVars, cfgVars, popVars, inpVars, bkVars>>

OnlyPopup == UNCHANGED <<allocVars, accVars, selVars, bridgeVars, offerVars, cfgVars, dbusVars, inpVars, bkVars>>

OnlyInput == UNCHANGED <<allocVars, accVars, selVars, bridgeVars, offerVars, cfgVars, dbusVars, popVars, bkVars>>

OnlyBackend == UNCHANGED <<allocVars, accVars, selVars, bridgeVars, offerVars, cfgVars, dbusVars, popVars, inpVars>>

(***************************************************************************)
(* ifs/wl_surface/xdg_surface/xdg_popup/mod.rs.  A Rect is the tuple       *)
(* <<x1, y1, x2, y2>>; a positioner is its constraint adjustment ca, the   *)
(* size of the popup and the place get_position gives it relative to the   *)
(* parent, unflipped (x, y) and flipped (fx, fy).                          *)
(***************************************************************************)
NoPopupOp == [op |-> "none", buffer |-> FALSE, linked |-> FALSE, ret |-> "none"]

NoRect == <<0, 0, 0, 0>>

BasePositioner == [ca |-> {}, x |-> 0, y |-> 0, fx |-> 0, fy |-> 0, w |-> 1, h |-> 1]

\* XdgPopup::new, lines 45-66: no link, and no position before the first
\* configure.
IdlePopup ==
    /\ parent = FALSE /\ parent_ws = FALSE /\ parent_abs = NoRect
    /\ positioner = BasePositioner
    /\ relative_position = NoRect /\ absolute_desired_extents = NoRect
    /\ display_link = FALSE /\ workspace_link = FALSE
    /\ ws_stacked = 0 /\ root_stacked = 0
    /\ popup_done = 0
    /\ popup = "alive"
    /\ plast = NoPopupOp
    /\ pmoves = 0

(***************************************************************************)
(* ifs/jay_input.rs: the seats and input devices of the state that the     *)
(* requests of JayInput look up, and the events sent to the client.        *)
(***************************************************************************)
NoInputReq == [op |-> "none", ret |-> "none", err |-> "none"]

IdleInput ==
    /\ seat_state = <<>>
    /\ dev_state = <<>>
    /\ ierrors = 0 /\ ievents = 0
    /\ ilast = NoInputReq
    /\ ireqs = 0

(***************************************************************************)
(* tasks/start_backend.rs: the task before its first poll.                 *)
(***************************************************************************)
IdleBackend ==
    /\ bpc = "start"
    /\ x_err = "none" /\ metal_err = "none"
    /\ ticks = 0
    /\ el_stopped = FALSE
    /\ blog = <<>>

(***************************************************************************)
(* dbus/incoming.rs.  A u32 is kept as its two 16-bit halves <<hi, lo>>.   *)
(* A message is what fill_msg_buf and parse_headers deliver of it.         *)
(***************************************************************************)
Half == 65536

DbusSerials == 1..NumCalls

NoHandler == "none"


\* A method call without arguments: handle_msg takes it and does nothing.
BaseMsg ==
    [io |-> TRUE, endian_ok |-> TRUE, protocol |-> 1, ty |-> "METHOD_CALL",
     headers_len |-> <<0, 8>>, body_len |-> <<0, 0>>, headers_ok |-> TRUE,
     unix_fds |-> 0, newfds |-> 0, reply_serial |-> 0, error_name |-> FALSE,
     signature |-> "", body_ok |-> TRUE, handler_ok |-> TRUE, member |-> "none"]

Messages ==
    {[BaseMsg EXCEPT !.io = FALSE], [BaseMsg EXCEPT !.endian_ok = FALSE],
     [BaseMsg EXCEPT !.protocol = 2], [BaseMsg EXCEPT !.headers_ok = FALSE]}
    \cup {[BaseMsg EXCEPT !.headers_len = h, !.body_len = b] :
            h \in {<<0, 0>>, <<0, 1>>, <<0, 8>>, <<0, 9>>, <<0, 65535>>,
                   <<65535, 65528>>, <<65535, 65529>>, <<65535, 65535>>},
            b \in {<<0, 0>>, <<65535, 65528>>, <<65535, 65535>>}}
    \cup {[BaseMsg EXCEPT !.unix_fds = u, !.newfds = n] : u \in 0..2, n \in 0..1}
    \cup {[BaseMsg EXCEPT !.ty = "METHOD_RETURN", !.reply_serial = r, !.signature = g,
                          !.handler_ok = ho] :
            r \in {0} \cup DbusSerials, g \in {"s", "u"}, ho \in BOOLEAN}
    \cup {[BaseMsg EXCEPT !.ty = "ERROR", !.reply_serial = r, !.error_name = e,
                          !.signature = g, !.body_ok = bo] :
            r \in {0} \cup DbusSerials, e \in BOOLEAN, g \in {"s", "u"}, bo \in BOOLEAN}
    \cup {[BaseMsg EXCEPT !.ty = "SIGNAL", !.member = mb, !.signature = g, !.handler_ok = ho] :
            mb \in {"none", "NameAcquired", "NameLost"}, g \in {"s", "u"}, ho \in BOOLEAN}

InitDbus ==
    /\ dead \in BOOLEAN
    /\ kills = 0
    /\ reply_handlers \in [DbusSerials -> {NoHandler, "s", "u"}]
    /\ signal_handlers \in SUBSET {"NameAcquired"}
    /\ invoked = [r \in DbusSerials |-> 0]
    /\ dfds = 0
    /\ dpos = "top"
    /\ nmsgs = 0
    /\ dlast = [msg |-> BaseMsg, res |-> "none", dyn |-> <<0, 0>>, pos |-> <<0, 0>>,
                ran |-> 0, logged |-> FALSE]

\* The socket before its incoming task runs, with no call outstanding.
IdleDbus ==
    /\ dead = FALSE
    /\ kills = 0
    /\ reply_handlers = [r \in DbusSerials |-> NoHandler]
    /\ signal_handlers = {}
    /\ invoked = [r \in DbusSerials |-> 0]
    /\ dfds = 0
    /\ dpos = "top"
    /\ nmsgs = 0
    /\ dlast = [msg |-> BaseMsg, res |-> "none", dyn |-> <<0, 0>>, pos |-> <<0, 0>>,
                ran |-> 0, logged |-> FALSE]

(***************************************************************************)
(* The configuration handler before its first request: no seat, no parsed  *)
(* keymap, the input devices of the backend unattached.                    *)
(***************************************************************************)
NoCfgReq == [op |-> "none", ret |-> "none", logged |-> FALSE]

DefaultRate == <<25, 250>>

InitCfg ==
    /\ cfgSeats = {}
    /\ seatKeymap = [x \in SeatIds |-> KeymapInvalid]
    /\ seatRate = [x \in SeatIds |-> DefaultRate]
    /\ seatSplit = [x \in SeatIds |-> "None"]
    /\ shortcuts = [x \in SeatIds |-> {}]
    /\ keymaps = {}
    /\ attach = [d \in InputDevices |-> SeatInvalid]
    /\ next_id = FirstId
    /\ responses = <<>>
    /\ creq = NoCfgReq

IdleCfg == InitCfg

(***************************************************************************)
(* format_ustr!("wayland-{}", id) and format_ustr!("{}/{}", xrd, name):    *)
(* the length of the socket path.                                          *)
(***************************************************************************)
Digits(i) == IF i < 10 THEN 1 ELSE IF i < 100 THEN 2 ELSE IF i < 1000 THEN 3 ELSE 4

NameLen(i) == NamePrefixLen + Digits(i)

PathLen(x, i) == x + 1 + NameLen(i)

\* path.len() + 1 > addr.sun_path.len()
PathTooLong(x, i) == PathLen(x, i) + 1 > SunPathLen

(***************************************************************************)
(* Inodes of lock files.  open(O_CREAT) on a missing wayland-<i>.lock      *)
(* creates a new inode; an unlinked inode lives on while a descriptor is   *)
(* open on it.  Inodes are numbered per index, a new one gets the lowest   *)
(* number that no link and no descriptor of that index uses.               *)
(***************************************************************************)
InoPool == 1..(NumProcs + 1)

UsedInos(i) == {lockIno[i]} \cup {lfd[q] : q \in {r \in Procs : idx[r] = i}}

FreshIno(i) == CHOOSE n \in InoPool : n \notin UsedInos(i) /\ \A m \in InoPool : m < n => m \in UsedInos(i)

\* flock(LOCK_EX | LOCK_NB) fails when another open file description holds the
\* lock of the same inode.
LockedByOther(p, ino) == \E q \in Procs : q # p /\ idx[q] = idx[p] /\ lockHeld[q] /\ lfd[q] = ino

InCall == {"open", "flock", "lstat", "unlink", "bind", "failed"}

\* A step of p is a step of the environment of every other running call.
Disturb(p) == [q \in Procs |-> IF q # p /\ pc[q] \in InCall THEN FALSE ELSE quiet[q]]

\* The loop of allocate_socket with `return Err(AddressesInUse)` inside the
\* Err arm: it gives up at the first candidate that fails.
CandidateFailed_GivesUp(p, e) ==
    /\ errs' = [errs EXCEPT ![p] = Append(@, e)]
    /\ lfd' = [lfd EXCEPT ![p] = 0]
    /\ lockHeld' = [lockHeld EXCEPT ![p] = FALSE]
    /\ pc' = [pc EXCEPT ![p] = "failed"]
    /\ result' = [result EXCEPT ![p] = "AddressesInUse"]
    /\ sock' = [sock EXCEPT ![p] = FALSE]
    /\ UNCHANGED idx

\* bind_socket that leaks the lock descriptor of a candidate it gives up
\* (std::mem::forget(lock_fd)): the lock stays held while the loop goes on.
CandidateFailed_KeepsLock(p, e) ==
    /\ errs' = [errs EXCEPT ![p] = Append(@, e)]
    /\ UNCHANGED <<lfd, lockHeld>>
    /\ IF idx[p] < LastIndex
       THEN /\ idx' = [idx EXCEPT ![p] = @ + 1]
            /\ pc' = [pc EXCEPT ![p] = "open"]
            /\ UNCHANGED <<sock, result>>
       ELSE /\ pc' = [pc EXCEPT ![p] = "failed"]
            /\ result' = [result EXCEPT ![p] = "AddressesInUse"]
            /\ sock' = [sock EXCEPT ![p] = FALSE]
            /\ UNCHANGED idx

\* The loop of allocate_socket over 1..=1000: one candidate past the range.
CandidateFailed_Inclusive(p, e) ==
    /\ errs' = [errs EXCEPT ![p] = Append(@, e)]
    /\ lfd' = [lfd EXCEPT ![p] = 0]
    /\ lockHeld' = [lockHeld EXCEPT ![p] = FALSE]
    /\ IF idx[p] <= LastIndex
       THEN /\ idx' = [idx EXCEPT ![p] = @ + 1]
            /\ pc' = [pc EXCEPT ![p] = "open"]
            /\ UNCHANGED <<sock, result>>
       ELSE /\ pc' = [pc EXCEPT ![p] = "failed"]
            /\ result' = [result EXCEPT ![p] = "AddressesInUse"]
            /\ sock' = [sock EXCEPT ![p] = FALSE]
            /\ UNCHANGED idx

(***************************************************************************)
(* allocate_socket, lines 115-123: bind_socket returned Err(e) for the     *)
(* candidate idx[p]; the lock descriptor of the candidate is dropped, the  *)
(* error is logged and the loop goes on, or ends with AddressesInUse.      *)
(***************************************************************************)
CandidateFailed(p, e) ==
    /\ errs' = [errs EXCEPT ![p] = Append(@, e)]
    /\ lfd' = [lfd EXCEPT ![p] = 0]
    /\ lockHeld' = [lockHeld EXCEPT ![p] = FALSE]
    /\ IF idx[p] < LastIndex
       THEN /\ idx' = [idx EXCEPT ![p] = @ + 1]
            /\ pc' = [pc EXCEPT ![p] = "open"]
            /\ UNCHANGED <<sock, result>>
       ELSE /\ pc' = [pc EXCEPT ![p] = "failed"]
            /\ result' = [result EXCEPT ![p] = "AddressesInUse"]
            /\ sock' = [sock EXCEPT ![p] = FALSE]
            /\ UNCHANGED idx

\* allocate_socket with the directory defaulted instead of checked
\* (std::env::var(..).unwrap_or_default()).
allocate_socket_NoEnvCheck(p) ==
    /\ pc[p] = "idle"
    /\ quiet' = [quiet EXCEPT ![p] = TRUE]
    /\ UNCHANGED <<bad, sockFile, lockIno, env, idx, lfd, lockHeld, errs>>
    /\ \/ /\ pc' = [pc EXCEPT ![p] = "failed"]
          /\ result' = [result EXCEPT ![p] = "SocketFailed"]
          /\ UNCHANGED sock
       \/ /\ sock' = [sock EXCEPT ![p] = TRUE]
          /\ pc' = [pc EXCEPT ![p] = "open"]
          /\ result' = [result EXCEPT ![p] = "running"]

(***************************************************************************)
(* allocate_socket, lines 103-114: read XDG_RUNTIME_DIR, create the socket.*)
(***************************************************************************)
allocate_socket(p) ==
    /\ pc[p] = "idle"
    /\ quiet' = [quiet EXCEPT ![p] = TRUE]
    /\ UNCHANGED <<bad, sockFile, lockIno, env, idx, lfd, lockHeld, errs>>
    /\ IF env[p] < 0
       THEN \* std::env::var fails
            /\ pc' = [pc EXCEPT ![p] = "failed"]
            /\ result' = [result EXCEPT ![p] = "XrdNotSet"]
            /\ UNCHANGED sock
       ELSE \/ \* uapi::socket fails
               /\ pc' = [pc EXCEPT ![p] = "failed"]
               /\ result' = [result EXCEPT ![p] = "SocketFailed"]
               /\ UNCHANGED sock
            \/ /\ sock' = [sock EXCEPT ![p] = TRUE]
               /\ pc' = [pc EXCEPT ![p] = "open"]
               /\ result' = [result EXCEPT ![p] = "running"]

(***************************************************************************)
(* bind_socket, lines 64-75: the length check and open(lock_path, O_CREAT).*)
(***************************************************************************)
bind_socket_open(p) ==
    /\ pc[p] = "open"
    /\ quiet' = Disturb(p)
    /\ UNCHANGED <<bad, sockFile, env>>
    /\ IF PathTooLong(env[p], idx[p])
       THEN /\ CandidateFailed(p, "XrdTooLong")
            /\ UNCHANGED lockIno
       ELSE \/ /\ idx[p] \in bad
               /\ CandidateFailed(p, "OpenLockFile")
               /\ UNCHANGED lockIno
            \/ /\ LET i == idx[p]
                      ino == IF lockIno[i] = 0 THEN FreshIno(i) ELSE lockIno[i]
                  IN /\ lockIno' = [lockIno EXCEPT ![i] = ino]
                     /\ lfd' = [lfd EXCEPT ![p] = ino]
               /\ pc' = [pc EXCEPT ![p] = "flock"]
               /\ UNCHANGED <<idx, sock, lockHeld, result, errs>>

\* bind_socket with the result of flock ignored (let _ = uapi::flock(..)).
bind_socket_flock_Ignored(p) ==
    /\ pc[p] = "flock"
    /\ quiet' = Disturb(p)
    /\ lockHeld' = [lockHeld EXCEPT ![p] = ~LockedByOther(p, lfd[p])]
    /\ pc' = [pc EXCEPT ![p] = "lstat"]
    /\ UNCHANGED <<bad, sockFile, lockIno, env, idx, sock, lfd, result, errs>>

(***************************************************************************)
(* bind_socket, lines 76-78: flock(lock_fd, LOCK_EX | LOCK_NB).            *)
(***************************************************************************)
bind_socket_flock(p) ==
    /\ pc[p] = "flock"
    /\ quiet' = Disturb(p)
    /\ UNCHANGED <<bad, sockFile, lockIno, env>>
    /\ IF LockedByOther(p, lfd[p])
       THEN CandidateFailed(p, "LockLockFile")
       ELSE /\ lockHeld' = [lockHeld EXCEPT ![p] = TRUE]
            /\ pc' = [pc EXCEPT ![p] = "lstat"]
            /\ UNCHANGED <<idx, sock, lfd, result, errs>>

\* bind_socket that binds over a socket file it found: no unlink.
bind_socket_lstat_KeepsFile(p) ==
    /\ pc[p] = "lstat"
    /\ quiet' = Disturb(p)
    /\ UNCHANGED <<bad, sockFile, lockIno, env>>
    /\ \/ /\ idx[p] \in bad
          /\ CandidateFailed(p, "SocketStat")
       \/ /\ pc' = [pc EXCEPT ![p] = "bind"]
          /\ UNCHANGED <<idx, sock, lfd, lockHeld, result, errs>>

(***************************************************************************)
(* bind_socket, lines 79-86: lstat(path).                                  *)
(***************************************************************************)
bind_socket_lstat(p) ==
    /\ pc[p] = "lstat"
    /\ quiet' = Disturb(p)
    /\ UNCHANGED <<bad, sockFile, lockIno, env>>
    /\ \/ \* Err(e), e other than ENOENT
          /\ idx[p] \in bad
          /\ CandidateFailed(p, "SocketStat")
       \/ \* Ok(_): the path exists
          /\ sockFile[idx[p]] # 0
          /\ pc' = [pc EXCEPT ![p] = "unlink"]
          /\ UNCHANGED <<idx, sock, lfd, lockHeld, result, errs>>
       \/ \* Err(ENOENT)
          /\ sockFile[idx[p]] = 0
          /\ pc' = [pc EXCEPT ![p] = "bind"]
          /\ UNCHANGED <<idx, sock, lfd, lockHeld, result, errs>>

(***************************************************************************)
(* bind_socket, lines 81-82: let _ = unlink(path).                         *)
(***************************************************************************)
bind_socket_unlink(p) ==
    /\ pc[p] = "unlink"
    /\ quiet' = Disturb(p)
    /\ sockFile' = [sockFile EXCEPT ![idx[p]] = 0]
    /\ pc' = [pc EXCEPT ![p] = "bind"]
    /\ UNCHANGED <<bad, lockIno, env, idx, sock, lfd, lockHeld, result, errs>>

(***************************************************************************)
(* bind_socket, lines 87-99: bind(fd, addr) and the returned handle.       *)
(***************************************************************************)
bind_socket_bind(p) ==
    /\ pc[p] = "bind"
    /\ quiet' = Disturb(p)
    /\ UNCHANGED <<bad, lockIno, env>>
    /\ IF idx[p] \in bad \/ sockFile[idx[p]] # 0
       THEN /\ CandidateFailed(p, "BindFailed")
            /\ UNCHANGED sockFile
       ELSE /\ sockFile' = [sockFile EXCEPT ![idx[p]] = p]
            /\ pc' = [pc EXCEPT ![p] = "live"]
            /\ result' = [result EXCEPT ![p] = "Ok"]
            /\ UNCHANGED <<idx, sock, lfd, lockHeld, errs>>

\* The locals and the result of a call that is over are gone.
Forget(p) ==
    /\ idx' = [idx EXCEPT ![p] = 1]
    /\ result' = [result EXCEPT ![p] = "none"]
    /\ errs' = [errs EXCEPT ![p] = <<>>]

(***************************************************************************)
(* The caller of a failed allocate_socket goes on.                         *)
(***************************************************************************)
allocate_socket_failed(p) ==
    /\ pc[p] = "failed"
    /\ pc' = [pc EXCEPT ![p] = "idle"]
    /\ quiet' = [quiet EXCEPT ![p] = TRUE]
    /\ Forget(p)
    /\ UNCHANGED <<bad, sockFile, lockIno, env, sock, lfd, lockHeld>>

(***************************************************************************)
(* AllocatedSocket::drop, line 58: let _ = unlink(&self.path).             *)
(***************************************************************************)
drop_unlink_path(p) ==
    /\ pc[p] = "live"
    /\ quiet' = Disturb(p)
    /\ sockFile' = [sockFile EXCEPT ![idx[p]] = 0]
    /\ pc' = [pc EXCEPT ![p] = "drop_lock"]
    /\ UNCHANGED <<bad, lockIno, env, idx, sock, lfd, lockHeld, result, errs>>

(***************************************************************************)
(* AllocatedSocket::drop, line 59: let _ = unlink(&self.lock_path).        *)
(***************************************************************************)
drop_unlink_lock_path(p) ==
    /\ pc[p] = "drop_lock"
    /\ quiet' = Disturb(p)
    /\ lockIno' = [lockIno EXCEPT ![idx[p]] = 0]
    /\ pc' = [pc EXCEPT ![p] = "drop_fds"]
    /\ UNCHANGED <<bad, sockFile, env, idx, sock, lfd, lockHeld, result, errs>>

(***************************************************************************)
(* The fields of AllocatedSocket (lines 45-54) are dropped after           *)
(* Drop::drop: fd and _lock_fd are closed, which releases the flock.       *)
(***************************************************************************)
drop_fields(p) ==
    /\ pc[p] = "drop_fds"
    /\ quiet' = Disturb(p)
    /\ sock' = [sock EXCEPT ![p] = FALSE]
    /\ lfd' = [lfd EXCEPT ![p] = 0]
    /\ lockHeld' = [lockHeld EXCEPT ![p] = FALSE]
    /\ pc' = [pc EXCEPT ![p] = "idle"]
    /\ Forget(p)
    /\ UNCHANGED <<bad, sockFile, lockIno, env>>

(***************************************************************************)
(* A live instance is killed: its descriptors are closed by the kernel     *)
(* (the flock is released), Drop does not run and the files stay behind    *)
(* (the "leftover from a crashed previous instance" of lines 79-83).       *)
(***************************************************************************)
crash(p) ==
    /\ pc[p] = "live"
    /\ quiet' = Disturb(p)
    /\ sockFile' = [i \in Indices |-> IF sockFile[i] = p THEN -1 ELSE sockFile[i]]
    /\ sock' = [sock EXCEPT ![p] = FALSE]
    /\ lfd' = [lfd EXCEPT ![p] = 0]
    /\ lockHeld' = [lockHeld EXCEPT ![p] = FALSE]
    /\ pc' = [pc EXCEPT ![p] = "idle"]
    /\ Forget(p)
    /\ UNCHANGED <<bad, lockIno, env>>

InitAlloc ==
    /\ bad \in SUBSET Indices
    /\ sockFile \in [Indices -> {0, -1}]
    /\ lockIno = [i \in Indices |-> 0]
    /\ pc = [p \in Procs |-> "idle"]
    /\ env \in [Procs -> Envs]
    /\ idx = [p \in Procs |-> 1]
    /\ sock = [p \in Procs |-> FALSE]
    /\ lfd = [p \in Procs |-> 0]
    /\ lockHeld = [p \in Procs |-> FALSE]
    /\ result = [p \in Procs |-> "none"]
    /\ errs = [p \in Procs |-> <<>>]
    /\ quiet = [p \in Procs |-> TRUE]

\* The directory and the instances while another part of the model runs.
IdleAlloc ==
    /\ bad = {}
    /\ sockFile = [i \in Indices |-> 0]
    /\ lockIno = [i \in Indices |-> 0]
    /\ env = [p \in Procs |-> -1]
    /\ pc = [p \in Procs |-> "idle"]
    /\ idx = [p \in Procs |-> 1]
    /\ sock = [p \in Procs |-> FALSE]
    /\ lfd = [p \in Procs |-> 0]
    /\ lockHeld = [p \in Procs |-> FALSE]
    /\ result = [p \in Procs |-> "none"]
    /\ errs = [p \in Procs |-> <<>>]
    /\ quiet = [p \in Procs |-> TRUE]

(***************************************************************************)
(* The Acceptor.                                                           *)
(***************************************************************************)
NoWake == [mask |-> {}, accepted |-> 0, spawned |-> 0, failed |-> 0]

\* The readiness masks the event loop delivers: EPOLLIN, EPOLLERR, EPOLLHUP.
Masks == SUBSET {"IN", "ERR", "HUP"} \ {{}}

InitAcc ==
    /\ accState = "Unregistered"
    /\ registered = FALSE
    /\ bound = FALSE
    /\ lockPath = FALSE
    /\ lockFd = FALSE
    /\ listening = FALSE
    /\ name = 0
    /\ ipc = "allocate"
    /\ installRet = "none"
    /\ retName = 0
    /\ tpc = "none"
    /\ pending = 0
    /\ conns = 0
    /\ clientIds = 0
    /\ spawned = {}
    /\ dpc = "idle"
    /\ dret = "none"
    /\ wake = NoWake

IdleAcc == InitAcc

\* clients.id(): the client registry mints the next id of its counter.
clients_id == clientIds + 1

\* What Acceptor::dispatch works on.
dispatchVars == <<pending, conns, clientIds, spawned, dpc, dret, wake>>

\* The AllocatedSocket of the Acceptor.
socketVars == <<bound, lockPath, lockFd, listening, name>>

(***************************************************************************)
(* Acceptor::install, line 128: allocate_socket()?.  allocate_socket is    *)
(* the allocation modelled above, taken here by its outcome: an error, or  *)
(* the handle of wayland-<i> with both paths linked and the lock held.     *)
(***************************************************************************)
install_allocate ==
    /\ ipc = "allocate"
    /\ UNCHANGED <<accState, registered, listening, retName, tpc>>
    /\ UNCHANGED dispatchVars
    /\ \/ /\ \E e \in {"XrdNotSet", "SocketFailed", "AddressesInUse"} : installRet' = e
          /\ ipc' = "done"
          /\ UNCHANGED <<bound, lockPath, lockFd, name>>
       \/ /\ \E i \in Indices : name' = i
          /\ bound' = TRUE
          /\ lockPath' = TRUE
          /\ lockFd' = TRUE
          /\ ipc' = "listen"
          /\ UNCHANGED installRet

\* install that hands the socket to the event loop before listen.
install_listen_AfterInsert ==
    /\ ipc = "listen"
    /\ UNCHANGED <<bound, lockPath, lockFd, name, retName, listening, installRet, tpc>>
    /\ UNCHANGED dispatchVars
    /\ accState' = "Listening"
    /\ registered' = TRUE
    /\ ipc' = "insert"

(***************************************************************************)
(* Acceptor::install, lines 130-132: uapi::listen(socket.fd, 4096).  On an *)
(* error install returns and the local `socket` is dropped.                *)
(***************************************************************************)
install_listen ==
    /\ ipc = "listen"
    /\ UNCHANGED <<accState, registered, bound, lockPath, lockFd, name, retName>>
    /\ UNCHANGED dispatchVars
    /\ \/ /\ installRet' = "ListenFailed"
          /\ ipc' = "done"
          /\ tpc' = "socket"
          /\ UNCHANGED listening
       \/ /\ listening' = TRUE
          /\ ipc' = "insert"
          /\ UNCHANGED <<installRet, tpc>>

(***************************************************************************)
(* Acceptor::install, lines 133-143: the Acceptor takes the socket and is  *)
(* inserted into the event loop; on an error of el.insert the Acceptor is  *)
(* dropped, on success the name of the socket is returned.                 *)
(***************************************************************************)
install_insert ==
    /\ ipc = "insert"
    /\ ipc' = "done"
    /\ UNCHANGED socketVars
    /\ UNCHANGED dispatchVars
    /\ \/ /\ installRet' = "EventLoopError"
          /\ tpc' = "acceptor"
          /\ UNCHANGED <<accState, registered, retName>>
       \/ /\ installRet' = "Ok"
          /\ retName' = name
          /\ accState' = "Listening"
          /\ registered' = TRUE
          /\ UNCHANGED tpc

(***************************************************************************)
(* A client connects to the listening socket: possible from listen on, as  *)
(* long as the socket path exists.                                         *)
(***************************************************************************)
connect ==
    /\ listening /\ bound
    /\ conns < MaxConns
    /\ conns' = conns + 1
    /\ pending' = pending + 1
    /\ UNCHANGED <<accState, registered, ipc, installRet, retName, tpc, clientIds, spawned,
                   dpc, dret, wake>>
    /\ UNCHANGED socketVars

\* dispatch that tests the mask for EPOLLIN first and accepts when it is set.
dispatch_events_ReadableFirst(mask) ==
    /\ registered
    /\ tpc = "none"
    /\ dpc = "idle"
    /\ wake' = [NoWake EXCEPT !.mask = mask]
    /\ IF "IN" \notin mask
       THEN /\ dret' = "ErrorEvent"
            /\ dpc' = "returned"
       ELSE /\ dret' = "none"
            /\ dpc' = "accept"
    /\ UNCHANGED <<accState, registered, ipc, installRet, retName, tpc, pending, conns,
                   clientIds, spawned>>
    /\ UNCHANGED socketVars

(***************************************************************************)
(* Acceptor::dispatch, lines 148-151: the event loop calls dispatch with   *)
(* the readiness mask of the wake.                                         *)
(***************************************************************************)
dispatch_events(mask) ==
    /\ registered
    /\ tpc = "none"
    /\ dpc = "idle"
    /\ wake' = [NoWake EXCEPT !.mask = mask]
    /\ IF mask \cap {"ERR", "HUP"} # {}
       THEN /\ dret' = "ErrorEvent"
            /\ dpc' = "returned"
       ELSE /\ dret' = "none"
            /\ dpc' = "accept"
    /\ UNCHANGED <<accState, registered, ipc, installRet, retName, tpc, pending, conns,
                   clientIds, spawned>>
    /\ UNCHANGED socketVars

\* dispatch that records the accept failure and tries again.
dispatch_accept_Retries ==
    /\ dpc = "accept"
    /\ UNCHANGED <<accState, registered, ipc, installRet, retName, tpc, conns, clientIds, spawned>>
    /\ UNCHANGED socketVars
    /\ \/ /\ pending > 0
          /\ pending' = pending - 1
          /\ wake' = [wake EXCEPT !.accepted = @ + 1]
          /\ dpc' = "spawn"
          /\ UNCHANGED dret
       \/ /\ pending = 0
          /\ dret' = "Ok"
          /\ dpc' = "returned"
          /\ UNCHANGED <<pending, wake>>
       \/ /\ dret' = "AcceptFailed"
          /\ UNCHANGED <<dpc, pending, wake>>

(***************************************************************************)
(* Acceptor::dispatch, lines 153-161: accept4 on the non-blocking socket.  *)
(***************************************************************************)
dispatch_accept ==
    /\ dpc = "accept"
    /\ UNCHANGED <<accState, registered, ipc, installRet, retName, tpc, conns, clientIds, spawned>>
    /\ UNCHANGED socketVars
    /\ \/ \* Ok((fd, _))
          /\ pending > 0
          /\ pending' = pending - 1
          /\ wake' = [wake EXCEPT !.accepted = @ + 1]
          /\ dpc' = "spawn"
          /\ UNCHANGED dret
       \/ \* Err(EAGAIN) => break, then Ok(())
          /\ pending = 0
          /\ dret' = "Ok"
          /\ dpc' = "returned"
          /\ UNCHANGED <<pending, wake>>
       \/ \* Err(e)
          /\ dret' = "AcceptFailed"
          /\ dpc' = "returned"
          /\ UNCHANGED <<pending, wake>>

\* dispatch with a failed spawn logged and the loop continued.
dispatch_spawn_Continues ==
    /\ dpc = "spawn"
    /\ clientIds' = clientIds + 1
    /\ UNCHANGED <<accState, registered, ipc, installRet, retName, tpc, pending, conns, dret>>
    /\ UNCHANGED socketVars
    /\ dpc' = "accept"
    /\ \/ /\ spawned' = spawned \cup {clientIds + 1}
          /\ wake' = [wake EXCEPT !.spawned = @ + 1]
       \/ /\ wake' = [wake EXCEPT !.failed = @ + 1]
          /\ UNCHANGED spawned

\* dispatch that spawns every client of a wake under one id, taken before
\* the loop.
dispatch_spawn_OneId ==
    /\ dpc = "spawn"
    /\ clientIds' = IF wake.spawned = 0 THEN clientIds + 1 ELSE clientIds
    /\ UNCHANGED <<accState, registered, ipc, installRet, retName, tpc, pending, conns>>
    /\ UNCHANGED socketVars
    /\ \/ /\ spawned' = spawned \cup {clientIds'}
          /\ wake' = [wake EXCEPT !.spawned = @ + 1]
          /\ dpc' = "accept"
          /\ UNCHANGED dret
       \/ /\ wake' = [wake EXCEPT !.failed = @ + 1]
          /\ dret' = "SpawnFailed"
          /\ dpc' = "returned"
          /\ UNCHANGED spawned

(***************************************************************************)
(* Acceptor::dispatch, lines 162-165: clients.id() and clients.spawn.      *)
(***************************************************************************)
dispatch_spawn ==
    /\ dpc = "spawn"
    /\ clientIds' = clients_id
    /\ UNCHANGED <<accState, registered, ipc, installRet, retName, tpc, pending, conns>>
    /\ UNCHANGED socketVars
    /\ \/ \* Ok
          /\ spawned' = spawned \cup {clients_id}
          /\ wake' = [wake EXCEPT !.spawned = @ + 1]
          /\ dpc' = "accept"
          /\ UNCHANGED dret
       \/ \* Err(e) => return Err(SpawnFailed(e))
          /\ wake' = [wake EXCEPT !.failed = @ + 1]
          /\ dret' = "SpawnFailed"
          /\ dpc' = "returned"
          /\ UNCHANGED spawned

(***************************************************************************)
(* The event loop after dispatch returned: it goes on after Ok; an error   *)
(* is fatal, the Acceptor is torn down (section 4.2): the event loop lets  *)
(* go of it and Acceptor::drop runs.                                       *)
(***************************************************************************)
dispatch_returned ==
    /\ dpc = "returned"
    /\ dpc' = "idle"
    /\ tpc' = IF dret = "Ok" THEN tpc ELSE "acceptor"
    /\ UNCHANGED <<accState, registered, ipc, installRet, retName, pending, conns, clientIds,
                   spawned, dret, wake>>
    /\ UNCHANGED socketVars

\* Acceptor::drop that leaves the registration in the event loop.
drop_Acceptor_KeepsRegistration ==
    /\ tpc = "acceptor"
    /\ tpc' = "socket"
    /\ accState' = IF accState = "Listening" THEN "Removed" ELSE accState
    /\ UNCHANGED <<registered, ipc, installRet, retName>>
    /\ UNCHANGED socketVars
    /\ UNCHANGED dispatchVars

(***************************************************************************)
(* Drop for Acceptor, lines 171-175: let _ = el.remove(self.id); the       *)
(* fields of the Acceptor (lines 39-43) are dropped after it.              *)
(***************************************************************************)
drop_Acceptor ==
    /\ tpc = "acceptor"
    /\ tpc' = "socket"
    /\ registered' = FALSE
    /\ accState' = IF accState = "Listening" THEN "Removed" ELSE accState
    /\ UNCHANGED <<ipc, installRet, retName>>
    /\ UNCHANGED socketVars
    /\ UNCHANGED dispatchVars

\* AllocatedSocket without its Drop: only the descriptors are closed.
drop_AllocatedSocket_NoUnlink ==
    /\ tpc = "socket"
    /\ tpc' = "done"
    /\ lockFd' = FALSE
    /\ listening' = FALSE
    /\ pending' = 0
    /\ UNCHANGED <<accState, registered, ipc, installRet, retName, bound, lockPath, name,
                   conns, clientIds, spawned, dpc, dret, wake>>

(***************************************************************************)
(* Drop for AllocatedSocket, lines 56-61: unlink(path), unlink(lock_path); *)
(* then its fields (lines 45-54) are dropped: fd and _lock_fd are closed,  *)
(* the flock is released and the listen queue is gone.                     *)
(***************************************************************************)
drop_AllocatedSocket ==
    /\ tpc = "socket"
    /\ tpc' = "done"
    /\ bound' = FALSE
    /\ lockPath' = FALSE
    /\ lockFd' = FALSE
    /\ listening' = FALSE
    /\ pending' = 0
    /\ UNCHANGED <<accState, registered, ipc, installRet, retName, name, conns, clientIds,
                   spawned, dpc, dret, wake>>

(***************************************************************************)
(* The primary selection of one seat.                                      *)
(* zwp_primary_selection_device_v1.rs holds the device: its constructor,   *)
(* send_data_offer, send_selection, the set_selection handler and          *)
(* create_offer.  The seat (WlSeatGlobal), the client (valid_serial,       *)
(* lookup) and the generic engine behind set_zwp_primary_selection are     *)
(* other files of the repository; they follow sections 3 and 4.3 of the    *)
(* specification.                                                          *)
(***************************************************************************)
\* The client that owns a device or a source object.
DevClient(d) == ((d - 1) % NumClients) + 1

SrcClient(s) == ((s - 1) % NumClients) + 1

NoOfferReq == [offer |-> 0, mime |-> "none"]

NoReq == [op |-> "none", dev |-> 0, src |-> 0, serial |-> 0, ret |-> "none"]

InitSel ==
    /\ issued = [c \in Clients |-> {}]
    /\ serials = 0
    /\ srcState = [s \in SourceIds |-> "none"]
    /\ seatDevs = {}
    /\ destroyed = {}
    /\ isXwm = [d \in DeviceIds |-> FALSE]
    /\ devSel = [d \in DeviceIds |-> 0]
    /\ selection = 0
    /\ selSerial = 0
    /\ dndActive = FALSE
    /\ offers = <<>>
    /\ objIds = [c \in Clients |-> 0]
    /\ events = [c \in Clients |-> <<>>]
    /\ xqueue = <<>>
    /\ xseen = <<>>
    /\ changes = 0
    /\ req = NoReq
    /\ offerSrc = <<>>
    /\ mimes = [s \in SourceIds |-> {}]
    /\ forwarded = <<>>
    /\ oreq = NoOfferReq

IdleSel == InitSel

\* The elements of a set of numbers, ascending.
RECURSIVE Ascending(_)
Ascending(S) ==
    IF S = {} THEN <<>>
    ELSE LET m == CHOOSE x \in S : \A y \in S : x <= y
         IN <<m>> \o Ascending(S \ {m})

\* client.valid_serial(serial): the serial is one the seat issued to the
\* client and is not older than the last accepted one.
valid_serial(c, n) == n \in issued[c] /\ n >= selSerial

\* seat.may_modify_primary_selection(client, serial): no conflicting role
\* holds the seat.
may_modify_primary_selection(c, n) == ~dndActive

\* client.lookup(req.source): the client's own source object.
lookup(c, s) == s \in SourceIds /\ SrcClient(s) = c /\ srcState[s] \notin {"none", "destroyed"}

\* send_data_offer that only serves the bridge: the wire event is lost.
send_data_offer_NoWire(d, o) ==
    IF isXwm[d]
    THEN [wire |-> <<>>,
          queue |-> <<[ev |-> "PrimarySelectionSetOffer", dev |-> d, offer |-> o.offer_id]>>]
    ELSE [wire |-> <<>>, queue |-> <<>>]

(***************************************************************************)
(* ZwpPrimarySelectionDeviceV1::send_data_offer, lines 57-70, for the      *)
(* offer o: what goes to the client's wire and what to the bridge queue.   *)
(***************************************************************************)
send_data_offer(d, o) ==
    IF isXwm[d]
    THEN [wire |-> <<>>,
          queue |-> <<[ev |-> "PrimarySelectionSetOffer", dev |-> d, offer |-> o.offer_id]>>]
    ELSE [wire |-> <<[ev |-> "data_offer", dev |-> d, offer |-> o.offer_id, id |-> o.id]>>,
          queue |-> <<>>]

\* send_selection that repeats the offer the device holds when it is given
\* None.
send_selection_KeepsLast(d, o) ==
    LET k == IF o.offer_id = 0 THEN devSel[d] ELSE o.offer_id
        i == IF o.offer_id = 0 /\ devSel[d] # 0 THEN offers[devSel[d]].id ELSE o.id
    IN IF isXwm[d]
       THEN [wire |-> <<>>,
             queue |-> <<[ev |-> "PrimarySelectionSetSelection", dev |-> d, offer |-> k]>>]
       ELSE [wire |-> <<[ev |-> "selection", dev |-> d, offer |-> k, id |-> i]>>,
             queue |-> <<>>]

(***************************************************************************)
(* ZwpPrimarySelectionDeviceV1::send_selection, lines 72-91; o.offer_id is *)
(* 0 for None.                                                             *)
(***************************************************************************)
send_selection(d, o) ==
    IF isXwm[d]
    THEN [wire |-> <<>>,
          queue |-> <<[ev |-> "PrimarySelectionSetSelection", dev |-> d, offer |-> o.offer_id]>>]
    ELSE [wire |-> <<[ev |-> "selection", dev |-> d, offer |-> o.offer_id, id |-> o.id]>>,
          queue |-> <<>>]

NoOffer == [offer_id |-> 0, id |-> 0, src |-> 0, dev |-> 0]

(***************************************************************************)
(* The engine's fan-out of a new selection s (0: none).                    *)
(***************************************************************************)
\* The devices that get an offer: those of the other clients.
Recipients(s) == IF s = 0 THEN {} ELSE {d \in seatDevs : DevClient(d) # SrcClient(s)}

\* create_offer that takes a client object id for every offer.
create_offer_AlwaysNewId(d, s) ==
    LET before == {e \in Recipients(s) : e < d}
        wired == {e \in before : DevClient(e) = DevClient(d) /\ ~isXwm[e]}
    IN [offer_id |-> Len(offers) + Cardinality(before) + 1,
        id |-> objIds[DevClient(d)] + Cardinality(wired) + 1,
        src |-> s,
        dev |-> d]

\* PrimarySelectionIpc::create_offer, lines 167-187, called for the
\* recipients in the order of the device list.
create_offer(d, s) ==
    LET before == {e \in Recipients(s) : e < d}
        wired == {e \in before : DevClient(e) = DevClient(d) /\ ~isXwm[e]}
    IN [offer_id |-> Len(offers) + Cardinality(before) + 1,
        id |-> IF isXwm[d] THEN 0 ELSE objIds[DevClient(d)] + Cardinality(wired) + 1,
        src |-> s,
        dev |-> d]

\* What one device is sent when the selection becomes s.
Notify(d, s) ==
    IF d \in Recipients(s)
    THEN LET o == create_offer(d, s)
             a == send_data_offer(d, o)
             b == send_selection(d, o)
         IN [wire |-> a.wire \o b.wire, queue |-> a.queue \o b.queue]
    ELSE send_selection(d, NoOffer)

RECURSIVE WireOf(_, _, _)
WireOf(ds, c, s) ==
    IF ds = <<>> THEN <<>>
    ELSE (IF DevClient(Head(ds)) = c THEN Notify(Head(ds), s).wire ELSE <<>>)
         \o WireOf(Tail(ds), c, s)

RECURSIVE QueueOf(_, _)
QueueOf(ds, s) ==
    IF ds = <<>> THEN <<>>
    ELSE Notify(Head(ds), s).queue \o QueueOf(Tail(ds), s)

RECURSIVE NewOffers(_, _)
NewOffers(ds, s) ==
    IF ds = <<>> THEN <<>>
    ELSE (IF Head(ds) \in Recipients(s) THEN <<create_offer(Head(ds), s)>> ELSE <<>>)
         \o NewOffers(Tail(ds), s)

\* The cancelled event for the source that is superseded.
Cancelled(c, old) ==
    IF old # 0 /\ SrcClient(old) = c THEN <<[ev |-> "cancelled", dev |-> 0, offer |-> 0, id |-> old]>> ELSE <<>>

\* The seat replacing the selection without cancelling the source it had.
SeatSetSelection_NoCancel(s) ==
    LET ds == Ascending(seatDevs)
    IN /\ selection' = s
       /\ srcState' = [x \in SourceIds |-> IF x = s THEN "active" ELSE srcState[x]]
       /\ offers' = offers \o NewOffers(ds, s)
       /\ objIds' = [c \in Clients |->
                       objIds[c] + Cardinality({d \in Recipients(s) : DevClient(d) = c /\ ~isXwm[d]})]
       /\ devSel' = [d \in DeviceIds |->
                       IF d \in Recipients(s) THEN create_offer(d, s).offer_id
                       ELSE IF d \in seatDevs THEN 0
                       ELSE devSel[d]]
       /\ events' = [c \in Clients |-> events[c] \o WireOf(ds, c, s)]
       /\ xqueue' = xqueue \o QueueOf(ds, s)
       /\ changes' = changes + 1

(***************************************************************************)
(* seat.set_zwp_primary_selection(src, serial) and the engine behind it    *)
(* (section 4.3, SetSelection step 3): the previous source is cancelled,   *)
(* s becomes the active source, every device of another client gets an     *)
(* offer and the selection, the owner's devices get the empty selection.   *)
(***************************************************************************)
SeatSetSelection(s) ==
    LET old == selection
        ds == Ascending(seatDevs)
    IN /\ selection' = s
       /\ srcState' = [x \in SourceIds |->
                         IF x = s THEN "active"
                         ELSE IF x = old THEN "cancelled"
                         ELSE srcState[x]]
       /\ offers' = offers \o NewOffers(ds, s)
       /\ objIds' = [c \in Clients |->
                       objIds[c] + Cardinality({d \in Recipients(s) : DevClient(d) = c /\ ~isXwm[d]})]
       /\ devSel' = [d \in DeviceIds |->
                       IF d \in Recipients(s) THEN create_offer(d, s).offer_id
                       ELSE IF d \in seatDevs THEN 0
                       ELSE devSel[d]]
       /\ events' = [c \in Clients |-> events[c] \o Cancelled(c, old) \o WireOf(ds, c, s)]
       /\ xqueue' = xqueue \o QueueOf(ds, s)
       /\ changes' = changes + 1

\* The seat takes a source that is not attached yet.
SeatAccepts(s) == s = 0 \/ srcState[s] = "created"

\* set_selection without the check of the serial.
set_selection_NoSerialCheck(d, s, n) ==
    /\ d \in seatDevs
    /\ changes < MaxChanges
    /\ LET c == DevClient(d)
       IN IF ~may_modify_primary_selection(c, n)
          THEN /\ req' = [op |-> "set_selection", dev |-> d, src |-> s, serial |-> n, ret |-> "Ok"]
               /\ UNCHANGED <<selection, selSerial, srcState, offers, objIds, devSel, events, xqueue, changes>>
          ELSE IF s # 0 /\ ~lookup(c, s)
          THEN /\ req' = [op |-> "set_selection", dev |-> d, src |-> s, serial |-> n, ret |-> "ClientError"]
               /\ UNCHANGED <<selection, selSerial, srcState, offers, objIds, devSel, events, xqueue, changes>>
          ELSE IF ~SeatAccepts(s)
          THEN /\ req' = [op |-> "set_selection", dev |-> d, src |-> s, serial |-> n, ret |-> "WlSeatError"]
               /\ UNCHANGED <<selection, selSerial, srcState, offers, objIds, devSel, events, xqueue, changes>>
          ELSE /\ req' = [op |-> "set_selection", dev |-> d, src |-> s, serial |-> n, ret |-> "Ok"]
               /\ selSerial' = n
               /\ SeatSetSelection(s)
    /\ UNCHANGED <<issued, serials, seatDevs, destroyed, isXwm, dndActive>>

\* set_selection that does not ask the seat whether the selection may be
\* modified.
set_selection_NoPolicyCheck(d, s, n) ==
    /\ d \in seatDevs
    /\ changes < MaxChanges
    /\ LET c == DevClient(d)
       IN IF ~valid_serial(c, n)
          THEN /\ req' = [op |-> "set_selection", dev |-> d, src |-> s, serial |-> n, ret |-> "Ok"]
               /\ UNCHANGED <<selection, selSerial, srcState, offers, objIds, devSel, events, xqueue, changes>>
          ELSE IF s # 0 /\ ~lookup(c, s)
          THEN /\ req' = [op |-> "set_selection", dev |-> d, src |-> s, serial |-> n, ret |-> "ClientError"]
               /\ UNCHANGED <<selection, selSerial, srcState, offers, objIds, devSel, events, xqueue, changes>>
          ELSE IF ~SeatAccepts(s)
          THEN /\ req' = [op |-> "set_selection", dev |-> d, src |-> s, serial |-> n, ret |-> "WlSeatError"]
               /\ UNCHANGED <<selection, selSerial, srcState, offers, objIds, devSel, events, xqueue, changes>>
          ELSE /\ req' = [op |-> "set_selection", dev |-> d, src |-> s, serial |-> n, ret |-> "Ok"]
               /\ selSerial' = n
               /\ SeatSetSelection(s)
    /\ UNCHANGED <<issued, serials, seatDevs, destroyed, isXwm, dndActive>>

\* set_selection with the invalid serial turned into a protocol error.
set_selection_StaleSerialError(d, s, n) ==
    /\ d \in seatDevs
    /\ changes < MaxChanges
    /\ LET c == DevClient(d)
       IN IF ~valid_serial(c, n)
          THEN /\ req' = [op |-> "set_selection", dev |-> d, src |-> s, serial |-> n, ret |-> "StaleSerial"]
               /\ UNCHANGED <<selection, selSerial, srcState, offers, objIds, devSel, events, xqueue, changes>>
          ELSE IF ~may_modify_primary_selection(c, n)
          THEN /\ req' = [op |-> "set_selection", dev |-> d, src |-> s, serial |-> n, ret |-> "Ok"]
               /\ UNCHANGED <<selection, selSerial, srcState, offers, objIds, devSel, events, xqueue, changes>>
          ELSE IF s # 0 /\ ~lookup(c, s)
          THEN /\ req' = [op |-> "set_selection", dev |-> d, src |-> s, serial |-> n, ret |-> "ClientError"]
               /\ UNCHANGED <<selection, selSerial, srcState, offers, objIds, devSel, events, xqueue, changes>>
          ELSE IF ~SeatAccepts(s)
          THEN /\ req' = [op |-> "set_selection", dev |-> d, src |-> s, serial |-> n, ret |-> "WlSeatError"]
               /\ UNCHANGED <<selection, selSerial, srcState, offers, objIds, devSel, events, xqueue, changes>>
          ELSE /\ req' = [op |-> "set_selection", dev |-> d, src |-> s, serial |-> n, ret |-> "Ok"]
               /\ selSerial' = n
               /\ SeatSetSelection(s)
    /\ UNCHANGED <<issued, serials, seatDevs, destroyed, isXwm, dndActive>>

\* set_selection that looks the source up before the two checks.
set_selection_LookupFirst(d, s, n) ==
    /\ d \in seatDevs
    /\ changes < MaxChanges
    /\ LET c == DevClient(d)
       IN IF s # 0 /\ ~lookup(c, s)
          THEN /\ req' = [op |-> "set_selection", dev |-> d, src |-> s, serial |-> n, ret |-> "ClientError"]
               /\ UNCHANGED <<selection, selSerial, srcState, offers, objIds, devSel, events, xqueue, changes>>
          ELSE IF ~valid_serial(c, n) \/ ~may_modify_primary_selection(c, n)
          THEN /\ req' = [op |-> "set_selection", dev |-> d, src |-> s, serial |-> n, ret |-> "Ok"]
               /\ UNCHANGED <<selection, selSerial, srcState, offers, objIds, devSel, events, xqueue, changes>>
          ELSE IF ~SeatAccepts(s)
          THEN /\ req' = [op |-> "set_selection", dev |-> d, src |-> s, serial |-> n, ret |-> "WlSeatError"]
               /\ UNCHANGED <<selection, selSerial, srcState, offers, objIds, devSel, events, xqueue, changes>>
          ELSE /\ req' = [op |-> "set_selection", dev |-> d, src |-> s, serial |-> n, ret |-> "Ok"]
               /\ selSerial' = n
               /\ SeatSetSelection(s)
    /\ UNCHANGED <<issued, serials, seatDevs, destroyed, isXwm, dndActive>>

(***************************************************************************)
(* ZwpPrimarySelectionDeviceV1::set_selection, lines 93-116: the request   *)
(* set_selection(source s, serial n) on device d; s = 0 is the NONE id.    *)
(***************************************************************************)
set_selection(d, s, n) ==
    /\ d \in seatDevs
    /\ changes < MaxChanges
    /\ LET c == DevClient(d)
       IN IF ~valid_serial(c, n)
          THEN \* log::warn!, return Ok(())
               /\ req' = [op |-> "set_selection", dev |-> d, src |-> s, serial |-> n, ret |-> "Ok"]
               /\ UNCHANGED <<selection, selSerial, srcState, offers, objIds, devSel, events, xqueue, changes>>
          ELSE IF ~may_modify_primary_selection(c, n)
          THEN \* log::warn!, return Ok(())
               /\ req' = [op |-> "set_selection", dev |-> d, src |-> s, serial |-> n, ret |-> "Ok"]
               /\ UNCHANGED <<selection, selSerial, srcState, offers, objIds, devSel, events, xqueue, changes>>
          ELSE IF s # 0 /\ ~lookup(c, s)
          THEN \* self.client.lookup(req.source)?
               /\ req' = [op |-> "set_selection", dev |-> d, src |-> s, serial |-> n, ret |-> "ClientError"]
               /\ UNCHANGED <<selection, selSerial, srcState, offers, objIds, devSel, events, xqueue, changes>>
          ELSE IF ~SeatAccepts(s)
          THEN \* self.seat.set_zwp_primary_selection(src, Some(req.serial))?
               /\ req' = [op |-> "set_selection", dev |-> d, src |-> s, serial |-> n, ret |-> "WlSeatError"]
               /\ UNCHANGED <<selection, selSerial, srcState, offers, objIds, devSel, events, xqueue, changes>>
          ELSE /\ req' = [op |-> "set_selection", dev |-> d, src |-> s, serial |-> n, ret |-> "Ok"]
               /\ selSerial' = n
               /\ SeatSetSelection(s)
    /\ UNCHANGED <<issued, serials, seatDevs, destroyed, isXwm, dndActive>>

(***************************************************************************)
(* ZwpPrimarySelectionDeviceV1::new, lines 36-55, and the registration of  *)
(* the device in the seat's device list (CreateDevice).                    *)
(***************************************************************************)
new(d, is_xwm) ==
    /\ d \notin seatDevs
    /\ d \notin destroyed
    /\ seatDevs' = seatDevs \cup {d}
    /\ isXwm' = [isXwm EXCEPT ![d] = is_xwm]
    /\ devSel' = [devSel EXCEPT ![d] = 0]
    /\ req' = [op |-> "new", dev |-> d, src |-> 0, serial |-> 0, ret |-> "Ok"]
    /\ UNCHANGED <<destroyed, issued, serials, srcState, selection, selSerial, dndActive, offers, objIds,
                   events, xqueue, changes>>

\* destroy that also clears the selection of the seat.
destroy_ClearsSelection(d) ==
    /\ d \in seatDevs
    /\ Cardinality(destroyed) < MaxDestroys
    /\ destroyed' = destroyed \cup {d}
    /\ seatDevs' = seatDevs \ {d}
    /\ devSel' = [e \in DeviceIds |-> 0]
    /\ selection' = 0
    /\ isXwm' = [isXwm EXCEPT ![d] = FALSE]
    /\ req' = [op |-> "destroy", dev |-> d, src |-> 0, serial |-> 0, ret |-> "Ok"]
    /\ UNCHANGED <<issued, serials, srcState, selSerial, dndActive, offers, objIds,
                   events, xqueue, changes>>

\* destroy that leaves the device in the seat's list.
destroy_StaysInSeat(d) ==
    /\ d \in seatDevs
    /\ Cardinality(destroyed) < MaxDestroys
    /\ destroyed' = destroyed \cup {d}
    /\ devSel' = [devSel EXCEPT ![d] = 0]
    /\ req' = [op |-> "destroy", dev |-> d, src |-> 0, serial |-> 0, ret |-> "Ok"]
    /\ UNCHANGED <<seatDevs, isXwm, issued, serials, srcState, selection, selSerial, dndActive,
                   offers, objIds, events, xqueue, changes>>

(***************************************************************************)
(* ZwpPrimarySelectionDeviceV1::destroy, lines 118-125: the device drops   *)
(* the offer it holds (destroy_data_device), leaves the seat's device list *)
(* and is removed from the client's objects.                               *)
(***************************************************************************)
destroy(d) ==
    /\ d \in seatDevs
    /\ Cardinality(destroyed) < MaxDestroys
    /\ destroyed' = destroyed \cup {d}
    /\ seatDevs' = seatDevs \ {d}
    /\ devSel' = [devSel EXCEPT ![d] = 0]
    /\ isXwm' = [isXwm EXCEPT ![d] = FALSE]
    /\ req' = [op |-> "destroy", dev |-> d, src |-> 0, serial |-> 0, ret |-> "Ok"]
    /\ UNCHANGED <<issued, serials, srcState, selection, selSerial, dndActive, offers, objIds,
                   events, xqueue, changes>>

\* break_loops that clears the device but leaves it in the seat's list.
break_loops_StaysInSeat(d) ==
    /\ d \in seatDevs \cup destroyed
    /\ d \in seatDevs => Cardinality(destroyed) < MaxDestroys
    /\ destroyed' = destroyed \cup {d}
    /\ devSel' = [devSel EXCEPT ![d] = 0]
    /\ req' = [op |-> "break_loops", dev |-> d, src |-> 0, serial |-> 0, ret |-> "Ok"]
    /\ UNCHANGED <<seatDevs, isXwm, issued, serials, srcState, selection, selSerial, dndActive,
                   offers, objIds, events, xqueue, changes>>

(***************************************************************************)
(* Object::break_loops, lines 209-214, called for the objects of a client  *)
(* that disconnects, also for a device that was torn down before:          *)
(* break_device_loops drops the offer the device holds, and the device     *)
(* leaves the seat's list if it is in it.                                  *)
(***************************************************************************)
break_loops(d) ==
    /\ d \in seatDevs \cup destroyed
    /\ d \in seatDevs => Cardinality(destroyed) < MaxDestroys
    /\ destroyed' = destroyed \cup {d}
    /\ seatDevs' = seatDevs \ {d}
    /\ devSel' = [devSel EXCEPT ![d] = 0]
    /\ isXwm' = [isXwm EXCEPT ![d] = FALSE]
    /\ req' = [op |-> "break_loops", dev |-> d, src |-> 0, serial |-> 0, ret |-> "Ok"]
    /\ UNCHANGED <<issued, serials, srcState, selection, selSerial, dndActive, offers, objIds,
                   events, xqueue, changes>>

\* The client creates a source object.
create_source(s) ==
    /\ srcState[s] = "none"
    /\ srcState' = [srcState EXCEPT ![s] = "created"]
    /\ req' = [op |-> "create_source", dev |-> 0, src |-> s, serial |-> 0, ret |-> "Ok"]
    /\ UNCHANGED <<destroyed, issued, serials, seatDevs, isXwm, devSel, selection, selSerial, dndActive,
                   offers, objIds, events, xqueue, changes>>

\* The seat sends an input event to a client and stamps it with a new serial.
issue_serial(c) ==
    /\ serials < MaxSerial
    /\ serials' = serials + 1
    /\ issued' = [issued EXCEPT ![c] = @ \cup {serials + 1}]
    /\ req' = [op |-> "issue_serial", dev |-> 0, src |-> 0, serial |-> serials + 1, ret |-> "Ok"]
    /\ UNCHANGED <<destroyed, srcState, seatDevs, isXwm, devSel, selection, selSerial, dndActive, offers,
                   objIds, events, xqueue, changes>>

(***************************************************************************)
(* A drag-and-drop begins or ends on the seat; the role change clears the  *)
(* primary selection (PrimarySelectionIpc::unset, lines 197-199).          *)
(***************************************************************************)
unset(active) ==
    /\ dndActive # active
    /\ changes < MaxChanges
    /\ dndActive' = active
    /\ req' = [op |-> "unset", dev |-> 0, src |-> 0, serial |-> 0, ret |-> "Ok"]
    /\ SeatSetSelection(0)
    /\ UNCHANGED <<issued, serials, seatDevs, destroyed, isXwm, selSerial>>

\* A bridge that takes the newest event of the queue first.
xwayland_pop_Newest ==
    /\ xqueue # <<>>
    /\ xseen' = Append(xseen, xqueue[Len(xqueue)])
    /\ xqueue' = SubSeq(xqueue, 1, Len(xqueue) - 1)
    /\ req' = [op |-> "xwayland_pop", dev |-> 0, src |-> 0, serial |-> 0, ret |-> "Ok"]
    /\ UNCHANGED <<issued, serials, srcState, seatDevs, destroyed, isXwm, devSel, selection,
                   selSerial, dndActive, offers, objIds, events, changes>>
    /\ UNCHANGED <<hostVars, offerVars>>

(***************************************************************************)
(* The bridge takes the next event from state.xwayland.queue (section 6:   *)
(* an ordered queue consumed by the legacy-compatibility subsystem).       *)
(***************************************************************************)
xwayland_pop ==
    /\ xqueue # <<>>
    /\ xseen' = Append(xseen, Head(xqueue))
    /\ xqueue' = Tail(xqueue)
    /\ req' = [op |-> "xwayland_pop", dev |-> 0, src |-> 0, serial |-> 0, ret |-> "Ok"]
    /\ UNCHANGED <<issued, serials, srcState, seatDevs, destroyed, isXwm, devSel, selection,
                   selSerial, dndActive, offers, objIds, events, changes>>
    /\ UNCHANGED <<hostVars, offerVars>>

NextSel ==
    \/ \E d \in DeviceIds, is_xwm \in BOOLEAN : new(d, is_xwm) /\ OnlySel
    \/ \E s \in SourceIds : create_source(s) /\ OnlySel
    \/ \E c \in Clients : issue_serial(c) /\ OnlySel
    \/ \E d \in DeviceIds, s \in SourceIds \cup {0}, n \in SerialArgs : set_selection(d, s, n) /\ OnlySel
    \/ \E active \in BOOLEAN : unset(active) /\ OnlySel
    \/ \E d \in DeviceIds : destroy(d) /\ OnlySel

\* The seat alone: no socket is allocated, no acceptor installed.
InitSelection == InitSel /\ IdleAlloc /\ IdleAcc /\ IdleCfg /\ IdleDbus /\ IdlePopup /\ IdleInput /\ IdleBackend

SpecSel == InitSelection /\ [][NextSel]_vars

(***************************************************************************)
(* The seat with the bridge consuming its queue; the clients send          *)
(* set_selection with serials that are valid for them.                     *)
(***************************************************************************)
NextBridge ==
    \/ \E d \in DeviceIds, is_xwm \in BOOLEAN : new(d, is_xwm) /\ OnlySel
    \/ \E s \in SourceIds : create_source(s) /\ OnlySel
    \/ \E c \in Clients : issue_serial(c) /\ OnlySel
    \/ \E d \in DeviceIds, s \in SourceIds \cup {0}, n \in SerialArgs :
          valid_serial(DevClient(d), n) /\ set_selection(d, s, n) /\ OnlySel
    \/ xwayland_pop

SpecBridge == InitSelection /\ [][NextBridge]_vars

(***************************************************************************)
(* The offers in the hands of their clients (section 4.3).  An offer       *)
(* forwards to its source as long as the source is the active one and the  *)
(* device it was created for is on the seat; the engine detaches the       *)
(* offers of a source that is cancelled, superseded or destroyed, and the  *)
(* offers of a device that is destroyed.                                   *)
(***************************************************************************)
\* The engine that leaves the offers of a superseded source attached.
DetachOffers_KeepsSuperseded ==
    offerSrc' = [k \in 1..Len(offers') |->
                   IF k <= Len(offers) THEN offerSrc[k] ELSE offers'[k].src]

DetachOffers ==
    offerSrc' = [k \in 1..Len(offers') |->
                   IF k <= Len(offers)
                   THEN IF /\ offerSrc[k] # 0
                           /\ srcState'[offerSrc[k]] = "active"
                           /\ offers[k].dev \in seatDevs'
                        THEN offerSrc[k]
                        ELSE 0
                   ELSE offers'[k].src]

\* A step of the seat, seen from the offers.
SeatStep == DetachOffers /\ UNCHANGED <<mimes, forwarded, oreq>> /\ UNCHANGED <<hostVars, bridgeVars>>

\* The client of a source advertises a mime type (section 3: a Source
\* accumulates advertised mime types from the owning client).
source_offer(s, m) ==
    /\ srcState[s] \in {"created", "active"}
    /\ m \notin mimes[s]
    /\ mimes' = [mimes EXCEPT ![s] = @ \cup {m}]
    /\ req' = [op |-> "source_offer", dev |-> 0, src |-> s, serial |-> 0, ret |-> "Ok"]
    /\ UNCHANGED <<issued, serials, srcState, seatDevs, destroyed, isXwm, devSel, selection,
                   selSerial, dndActive, offers, objIds, events, xqueue, changes>>
    /\ UNCHANGED <<offerSrc, forwarded, oreq>>
    /\ UNCHANGED <<hostVars, bridgeVars>>

\* The client of a source destroys it: the source is gone for good, and if
\* it was the active one the devices are told that the selection is empty.
destroy_source(s) ==
    LET ds == Ascending(seatDevs)
    IN /\ srcState[s] \in {"created", "active", "cancelled"}
       /\ srcState' = [srcState EXCEPT ![s] = "destroyed"]
       /\ req' = [op |-> "destroy_source", dev |-> 0, src |-> s, serial |-> 0, ret |-> "Ok"]
       /\ IF s = selection
          THEN /\ selection' = 0
               /\ devSel' = [d \in DeviceIds |-> IF d \in seatDevs THEN 0 ELSE devSel[d]]
               /\ events' = [c \in Clients |-> events[c] \o WireOf(ds, c, 0)]
               /\ xqueue' = xqueue \o QueueOf(ds, 0)
          ELSE UNCHANGED <<selection, devSel, events, xqueue>>
       /\ UNCHANGED <<issued, serials, seatDevs, destroyed, isXwm, selSerial, dndActive, offers,
                      objIds, changes>>

\* OfferRequestData that tears the offer down when the mime type is refused.
OfferRequestData_TearsDown(k, m) ==
    LET s == offerSrc[k]
        ret == IF s = 0 THEN "OfferStale"
               ELSE IF m \notin mimes[s] THEN "MimeTypeNotOffered"
               ELSE "Ok"
    IN /\ k \in 1..Len(offers)
       /\ Len(forwarded) < MaxRequests
       /\ oreq' = [offer |-> k, mime |-> m]
       /\ req' = [op |-> "receive", dev |-> offers[k].dev, src |-> offers[k].src, serial |-> 0,
                  ret |-> ret]
       /\ forwarded' = IF ret = "Ok" THEN Append(forwarded, [src |-> s, mime |-> m, offer |-> k])
                       ELSE forwarded
       /\ offerSrc' = IF ret = "Ok" THEN offerSrc ELSE [offerSrc EXCEPT ![k] = 0]
       /\ UNCHANGED mimes
       /\ UNCHANGED <<issued, serials, srcState, seatDevs, destroyed, isXwm, devSel, selection,
                      selSerial, dndActive, offers, objIds, events, xqueue, changes>>
       /\ UNCHANGED <<hostVars, bridgeVars>>

(***************************************************************************)
(* OfferRequestData(offer, mime_type, sink_fd) (section 4.3): the offer    *)
(* must still be live and the mime type advertised by its source; then the *)
(* request is forwarded to the client of the source.  A refused request    *)
(* leaves the offer as it is.                                              *)
(***************************************************************************)
OfferRequestData(k, m) ==
    LET s == offerSrc[k]
        ret == IF s = 0 THEN "OfferStale"
               ELSE IF m \notin mimes[s] THEN "MimeTypeNotOffered"
               ELSE "Ok"
    IN /\ k \in 1..Len(offers)
       /\ Len(forwarded) < MaxRequests
       /\ oreq' = [offer |-> k, mime |-> m]
       /\ req' = [op |-> "receive", dev |-> offers[k].dev, src |-> offers[k].src, serial |-> 0,
                  ret |-> ret]
       /\ forwarded' = IF ret = "Ok" THEN Append(forwarded, [src |-> s, mime |-> m, offer |-> k])
                       ELSE forwarded
       /\ UNCHANGED <<offerSrc, mimes>>
       /\ UNCHANGED <<issued, serials, srcState, seatDevs, destroyed, isXwm, devSel, selection,
                      selSerial, dndActive, offers, objIds, events, xqueue, changes>>
       /\ UNCHANGED <<hostVars, bridgeVars>>

\* The clients are ordinary ones, the seat sends its k-th input event to
\* client k, and the sources advertise the mime types in Advertised.
NextOffer ==
    \/ \E d \in DeviceIds : new(d, FALSE) /\ SeatStep
    \/ \E s \in SourceIds : create_source(s) /\ SeatStep
    \/ \E s \in SourceIds, m \in Advertised : source_offer(s, m)
    \/ \E c \in Clients : c = serials + 1 /\ issue_serial(c) /\ SeatStep
    \/ \E d \in DeviceIds, s \in SourceIds \cup {0}, n \in SerialArgs :
          valid_serial(DevClient(d), n) /\ set_selection(d, s, n) /\ SeatStep
    \/ \E s \in SourceIds : destroy_source(s) /\ SeatStep
    \/ \E d \in DeviceIds : destroy(d) /\ SeatStep
    \/ \E k \in 1..MaxOffers, m \in MimeTypes : OfferRequestData(k, m)

SpecOffer == InitSelection /\ [][NextOffer]_vars

(***************************************************************************)
(* The seat with devices that are destroyed and clients that disconnect;   *)
(* the clients send set_selection with serials that are valid for them.    *)
(***************************************************************************)
NextTeardown ==
    \/ \E d \in DeviceIds, is_xwm \in BOOLEAN : new(d, is_xwm) /\ OnlySel
    \/ \E s \in SourceIds : create_source(s) /\ OnlySel
    \/ \E c \in Clients : issue_serial(c) /\ OnlySel
    \/ \E d \in DeviceIds, s \in SourceIds \cup {0}, n \in SerialArgs :
          valid_serial(DevClient(d), n) /\ set_selection(d, s, n) /\ OnlySel
    \/ \E active \in BOOLEAN : unset(active) /\ OnlySel
    \/ \E d \in DeviceIds : destroy(d) /\ OnlySel
    \/ \E d \in DeviceIds : break_loops(d) /\ OnlySel

SpecTeardown == InitSelection /\ [][NextTeardown]_vars

NextAcc ==
    \/ install_allocate /\ OnlyAcc
    \/ install_listen /\ OnlyAcc
    \/ install_insert /\ OnlyAcc
    \/ connect /\ OnlyAcc
    \/ \E mask \in Masks : dispatch_events(mask) /\ OnlyAcc
    \/ dispatch_accept /\ OnlyAcc
    \/ dispatch_spawn /\ OnlyAcc
    \/ dispatch_returned /\ OnlyAcc
    \/ drop_Acceptor /\ OnlyAcc
    \/ drop_AllocatedSocket /\ OnlyAcc

\* The acceptor alone.
InitAcceptor == InitAcc /\ IdleAlloc /\ IdleSel /\ IdleCfg /\ IdleDbus /\ IdlePopup /\ IdleInput /\ IdleBackend

SpecAccept == InitAcceptor /\ [][NextAcc]_vars

NextAlloc ==
    \E p \in Procs :
        \/ allocate_socket(p) /\ OnlyAlloc
        \/ bind_socket_open(p) /\ OnlyAlloc
        \/ bind_socket_flock(p) /\ OnlyAlloc
        \/ bind_socket_lstat(p) /\ OnlyAlloc
        \/ bind_socket_unlink(p) /\ OnlyAlloc
        \/ bind_socket_bind(p) /\ OnlyAlloc
        \/ allocate_socket_failed(p) /\ OnlyAlloc
        \/ drop_unlink_path(p) /\ OnlyAlloc
        \/ drop_unlink_lock_path(p) /\ OnlyAlloc
        \/ drop_fields(p) /\ OnlyAlloc
        \/ crash(p) /\ OnlyAlloc

\* The allocator alone.
InitAllocator == InitAlloc /\ IdleAcc /\ IdleSel /\ IdleCfg /\ IdleDbus /\ IdlePopup /\ IdleInput /\ IdleBackend

SpecAlloc == InitAllocator /\ [][NextAlloc]_vars

(***************************************************************************)
(* Every instance calls allocate_socket once, all at the same time, and    *)
(* keeps what it got: no handle is dropped and no instance is killed.      *)
(***************************************************************************)
NextAllocOnce ==
    \E p \in Procs :
        \/ result[p] = "none" /\ allocate_socket(p) /\ OnlyAlloc
        \/ bind_socket_open(p) /\ OnlyAlloc
        \/ bind_socket_flock(p) /\ OnlyAlloc
        \/ bind_socket_lstat(p) /\ OnlyAlloc
        \/ bind_socket_unlink(p) /\ OnlyAlloc
        \/ bind_socket_bind(p) /\ OnlyAlloc

SpecAllocOnce == InitAllocator /\ [][NextAllocOnce]_vars

TypeAlloc ==
    /\ bad \subseteq Indices
    /\ sockFile \in [Indices -> Procs \cup {0, -1}]
    /\ env \in [Procs -> Envs]
    /\ lockIno \in [Indices -> InoPool \cup {0}]
    /\ idx \in [Procs -> Indices]
    /\ lfd \in [Procs -> InoPool \cup {0}]
    /\ \A p \in Procs : lockHeld[p] => lfd[p] # 0
    /\ \A p, q \in Procs : (p # q /\ lockHeld[p] /\ lockHeld[q] /\ idx[p] = idx[q]) => lfd[p] # lfd[q]

(***************************************************************************)
(* What the claims speak of.                                               *)
(***************************************************************************)
\* The instance holds a bound socket whose handle it has not begun to drop.
Live(p) == pc[p] = "live"

\* allocate_socket has returned.
Returned(p) == pc[p] \in {"live", "failed"}

\* Every socket path of the directory of instance p is too long.
AllTooLong(p) == env[p] >= 0 /\ \A i \in Indices : PathTooLong(env[p], i)

\* Another instance holds the flock of the lock file linked at wayland-<i>.lock.
LockTaken(p, i) == lockIno[i] # 0 /\ \E q \in Procs : q # p /\ idx[q] = i /\ lockHeld[q] /\ lfd[q] = lockIno[i]

\* Candidate i can be locked and bound by p as things stand.
Usable(p, i) == env[p] >= 0 /\ ~PathTooLong(env[p], i) /\ i \notin bad /\ ~LockTaken(p, i)

\* The indices that are free for every instance: the environment lets them
\* be locked and bound.
FreeIndices == Indices \ bad

(***************************************************************************)
(* C1: at most one live (bound, not yet dropped) ListeningSocket exists    *)
(* per name wayland-<i> at any time.                                       *)
(* The code breaks it: Drop unlinks the lock file while another instance   *)
(* has it open and is about to flock it, so that the next instance locks a *)
(* new lock file of the same name; C1_OneLivePerName is violated.          *)
(***************************************************************************)
C1_OneLivePerName ==
    \A p, q \in Procs : (p # q /\ Live(p) /\ Live(q)) => idx[p] # idx[q]

(***************************************************************************)
(* C2: when the instances call allocate() at the same time on one runtime  *)
(* directory with at least as many free indices as instances (two), every  *)
(* call that got its directory and its socket succeeds, none returns       *)
(* AddressesInUse, and no two of them are bound to the same index.         *)
(***************************************************************************)
C2_ConcurrentAllocateDistinct ==
    Cardinality(FreeIndices) >= NumProcs =>
        /\ \A p \in Procs :
              (pc[p] = "failed" /\ ~AllTooLong(p)) => result[p] \in {"XrdNotSet", "SocketFailed"}
        /\ \A p, q \in Procs : (p # q /\ Live(p) /\ Live(q)) => idx[p] # idx[q]

\* Both calls have returned successfully, after one of them lost the race for
\* the first index.
C2_Witness ==
    /\ Cardinality(FreeIndices) >= NumProcs
    /\ \A p \in Procs : Live(p) /\ result[p] = "Ok"
    /\ \E p \in Procs : errs[p] # <<>> /\ errs[p][1] = "LockLockFile"

Allocated == name # 0

\* The AllocatedSocket has been dropped.
HandleDropped == tpc = "done"

\* dispatch returned an error and the event loop has taken it.
DispatchFailed == dpc = "idle" /\ dret \in {"ErrorEvent", "AcceptFailed", "SpawnFailed"}

(***************************************************************************)
(* C13: from the success of allocate() until the handle is dropped the     *)
(* socket path and the lock path exist and the lock is held; every exit    *)
(* that gives up the handle drops it: install failing at listen, install   *)
(* failing at the registration with the event loop, and the teardown of    *)
(* the installed Acceptor; once the handle is dropped both paths are       *)
(* unlinked and the lock is released.                                      *)
(***************************************************************************)
C13_DropUnlinksOnEveryExit ==
    /\ (Allocated /\ ~HandleDropped) => (bound /\ lockPath /\ lockFd)
    /\ HandleDropped => (Allocated /\ ~bound /\ ~lockPath /\ ~lockFd)
    /\ installRet = "ListenFailed" => tpc \in {"socket", "done"}
    /\ installRet = "EventLoopError" => tpc \in {"acceptor", "socket", "done"}
    /\ DispatchFailed => tpc \in {"acceptor", "socket", "done"}
    /\ accState = "Removed" => tpc \in {"socket", "done"}

\* The installed Acceptor was torn down after a failed dispatch and its
\* socket is gone.
C13_Witness ==
    /\ installRet = "Ok" /\ accState = "Removed" /\ DispatchFailed
    /\ HandleDropped /\ ~bound /\ ~lockPath /\ ~lockFd

\* The step takes a connection from the listen queue.
Accepts == wake'.accepted = wake.accepted + 1 /\ wake'.mask = wake.mask

(***************************************************************************)
(* C14: the Acceptor goes Unregistered -> Listening -> Removed and no      *)
(* other way.  listen is called only on an allocated socket, the socket is *)
(* registered with the event loop only after listen succeeded, and install *)
(* returns Ok in the step of the registration, with the name of the        *)
(* allocated socket.  A connection is accepted only while the Acceptor is  *)
(* registered and Listening: none before the registration, none after the  *)
(* removal.                                                                *)
(***************************************************************************)
C14_InstallOrder ==
    [][/\ accState' # accState =>
             \/ accState = "Unregistered" /\ accState' = "Listening"
             \/ accState = "Listening" /\ accState' = "Removed"
       /\ (listening' /\ ~listening) => (Allocated /\ bound /\ lockFd /\ ~registered)
       /\ (registered' /\ ~registered) => (Allocated /\ listening /\ accState' = "Listening")
       /\ (installRet' = "Ok" /\ installRet # "Ok") =>
             /\ Allocated /\ listening /\ registered' /\ ~registered
             /\ retName' = name /\ name' = name
       /\ installRet' # "Ok" => retName' = 0
       /\ Accepts => (registered /\ accState = "Listening" /\ installRet = "Ok" /\ tpc = "none")]_vars

\* install returned the name of its socket, a client was accepted and
\* spawned, then the Acceptor was removed while a connection was pending.
C14_Witness ==
    /\ installRet = "Ok" /\ retName = name /\ name # 0
    /\ accState = "Removed" /\ ~registered
    /\ spawned # {} /\ pending > 0

\* The step is dispatch leaving its loop on EAGAIN and returning Ok(()).
ReturnsOk == dpc = "accept" /\ dpc' = "returned" /\ dret' = "Ok"

\* dispatch returned Ok and the event loop has not yet taken the result.
ReturnedOk == dpc = "returned" /\ dret = "Ok"

(***************************************************************************)
(* C15: in a wake without accept or spawn failure dispatch takes the       *)
(* connections one at a time, each handed to the client registry under an  *)
(* id minted for it before the next accept, until accept reports EAGAIN;   *)
(* at the moment it returns Ok the listen queue is empty and every         *)
(* connection made so far, the N pending ones of this wake included, has   *)
(* been spawned under an id of its own, the ids running in the order of    *)
(* accept.                                                                 *)
(***************************************************************************)
C15_DrainsQueueFreshIds ==
    [][/\ wake'.failed = 0 =>
             /\ dpc' = "accept" => wake'.accepted = wake'.spawned
             /\ dpc' = "spawn" => wake'.accepted = wake'.spawned + 1
       /\ spawned' \subseteq 1..clientIds'
       /\ Accepts => (dpc' = "spawn" /\ clientIds' = clientIds)
       /\ (dpc = "spawn" /\ dpc' = "accept") =>
             /\ clientIds' = clientIds + 1
             /\ clientIds' \notin spawned /\ spawned' = spawned \cup {clientIds'}
             /\ pending' = pending
       /\ ReturnsOk =>
             /\ pending = 0 /\ pending' = 0
             /\ wake.failed = 0 /\ wake.spawned = wake.accepted
             /\ clientIds = conns
             /\ spawned' = 1..conns]_vars

\* A wake that found two connections pending and a second wake for a third
\* have returned Ok.
C15_Witness ==
    /\ ReturnedOk /\ wake.accepted >= 1
    /\ conns = MaxConns /\ Cardinality(spawned) = MaxConns

\* events & (EPOLLERR | EPOLLHUP) != 0 for the mask of the wake w.
ErrorMask(w) == w.mask \cap {"ERR", "HUP"} # {}

(***************************************************************************)
(* C16: a wake whose readiness mask contains error or hangup makes         *)
(* dispatch return ErrorEvent at once, whether or not readable is set as   *)
(* well: no connection is accepted and no client id is minted or spawned   *)
(* in that wake or after it.                                               *)
(***************************************************************************)
C16_ErrorMaskIsFatal ==
    [][ErrorMask(wake') =>
          /\ dpc' \in {"returned", "idle"}
          /\ dret' = "ErrorEvent"
          /\ wake'.accepted = 0 /\ wake'.spawned = 0 /\ wake'.failed = 0
          /\ ~Accepts
          /\ clientIds' = clientIds /\ spawned' = spawned]_vars

\* dispatch returned ErrorEvent for a mask with readable and hangup set,
\* with a connection waiting in the queue.
C16_Witness ==
    /\ wake.mask = {"IN", "HUP"} /\ pending > 0
    /\ dpc = "returned" /\ dret = "ErrorEvent"
    /\ clientIds = 0

(***************************************************************************)
(* C17: an error of accept4 other than EAGAIN ends dispatch at once with   *)
(* AcceptFailed: the step changes nothing else, no connection is accepted  *)
(* and no client id minted afterwards, and the clients spawned before,     *)
(* those of the same wake included, stay spawned.                          *)
(***************************************************************************)
C17_AcceptFailureIsFatal ==
    [][/\ spawned \subseteq spawned'
       /\ dret' = "AcceptFailed" =>
             /\ dpc' \in {"returned", "idle"}
             /\ dret # "AcceptFailed" => (dpc = "accept" /\ pending' = pending)
             /\ ~Accepts
             /\ wake' = wake
             /\ clientIds' = clientIds /\ spawned' = spawned]_vars

\* accept4 failed after a client was spawned in the same wake, with a
\* connection still in the queue.
C17_Witness ==
    /\ dret = "AcceptFailed" /\ dpc = "returned"
    /\ wake.spawned >= 1 /\ Cardinality(spawned) >= 1
    /\ pending >= 1

\* The step unlinks the socket path or the lock path.
Unlinks == (bound /\ ~bound') \/ (lockPath /\ ~lockPath')

(***************************************************************************)
(* C18: the teardown of the Acceptor removes its id from the event loop    *)
(* first, with the socket untouched, and the cleanup of the socket (the    *)
(* unlink of the socket path and of the lock path) follows in the same     *)
(* teardown: no path is unlinked while the Acceptor is registered, and     *)
(* once the teardown has passed Acceptor::drop the id is not registered.   *)
(***************************************************************************)
C18_DeregisterThenCleanup ==
    [][/\ Unlinks => (tpc = "socket" /\ tpc' = "done" /\ ~registered /\ ~bound' /\ ~lockPath')
       /\ (registered /\ ~registered') =>
             (tpc = "acceptor" /\ tpc' = "socket" /\ bound' /\ lockPath' /\ lockFd')
       /\ (tpc = "acceptor" /\ tpc' # "acceptor") => (tpc' = "socket" /\ ~registered')
       /\ tpc' \in {"socket", "done"} => ~registered']_vars

\* The installed Acceptor is out of the event loop and its socket is about
\* to be cleaned up.
C18_Witness ==
    /\ installRet = "Ok" /\ accState = "Removed" /\ ~registered
    /\ tpc = "socket" /\ bound /\ lockPath /\ lockFd

(***************************************************************************)
(* The primary selection: what the claims speak of.                        *)
(***************************************************************************)
\* The last step handled a set_selection request whose serial was not valid
\* for the requesting client.
InvalidSerialRequest ==
    req.op = "set_selection" /\ ~valid_serial(DevClient(req.dev), req.serial)

\* The same, seen from the state before the step.
InvalidSerialStep ==
    req'.op = "set_selection" /\ ~valid_serial(DevClient(req'.dev), req'.serial)

\* The step is a set_selection with a source that the seat accepted.
SelectionSetStep ==
    /\ req'.op = "set_selection" /\ req'.ret = "Ok" /\ req'.src # 0
    /\ changes' = changes + 1

\* What the step sent for device d: the wire events of its client that name
\* the device, or the bridge events of the device.
SentTo(d) ==
    LET c == DevClient(d)
        wire == SubSeq(events'[c], Len(events[c]) + 1, Len(events'[c]))
        queue == SubSeq(xqueue', Len(xqueue) + 1, Len(xqueue'))
        mine(e) == e.dev = d
    IN IF isXwm[d] THEN SelectSeq(queue, mine) ELSE SelectSeq(wire, mine)

IsNewOffer(e) == e.ev \in {"data_offer", "PrimarySelectionSetOffer"}

IsSelectionIs(e) == e.ev \in {"selection", "PrimarySelectionSetSelection"}

\* The cancelled events the owner of source s was sent.
CancelCount(s) ==
    Len(SelectSeq(events[SrcClient(s)], LAMBDA e : e.ev = "cancelled" /\ e.id = s))

C5_InvalidSerialChangesNothing ==
    [][InvalidSerialStep =>
         UNCHANGED <<selection, selSerial, srcState, seatDevs, isXwm, devSel, offers,
                     objIds, events, xqueue, dndActive, issued>>]_vars

\* A stale serial (issued to the client, older than the accepted one) came in
\* while a source of another client was active and devices had events queued.
C5_Witness ==
    /\ InvalidSerialRequest
    /\ req.serial \in issued[DevClient(req.dev)] /\ req.serial < selSerial
    /\ selection # 0 /\ SrcClient(selection) # DevClient(req.dev)
    /\ devSel[req.dev] # 0
    /\ req.src # 0 /\ lookup(DevClient(req.dev), req.src)

(***************************************************************************)
(* C6: at most one source is active on the seat at any time, it is the     *)
(* seat's selection, and a source has been sent exactly one cancelled      *)
(* event if it was active and is superseded, and none otherwise.           *)
(***************************************************************************)
C6_OneActiveOneCancel ==
    /\ Cardinality({s \in SourceIds : srcState[s] = "active"}) <= 1
    /\ \A s \in SourceIds : srcState[s] = "active" <=> selection = s
    /\ \A s \in SourceIds : CancelCount(s) = IF srcState[s] = "cancelled" THEN 1 ELSE 0

\* A source was superseded by the source of another client.
C6_Witness ==
    \E s, t \in SourceIds :
        /\ srcState[s] = "cancelled" /\ CancelCount(s) = 1
        /\ selection = t /\ req.op = "set_selection" /\ req.src = t

(***************************************************************************)
(* C7: when set_selection with a source succeeds, every device of the seat *)
(* that belongs to another client than the source's is sent exactly one    *)
(* data_offer and then exactly one selection, both for the same offer,     *)
(* which is new, derived from the source and the device's own; a device    *)
(* of the source's client is sent no data_offer and no selection that      *)
(* carries an offer.                                                       *)
(***************************************************************************)
C7_FanOut ==
    [][SelectionSetStep =>
         \A d \in seatDevs :
            LET sent == SentTo(d)
            IN IF DevClient(d) # SrcClient(req'.src)
               THEN /\ Len(sent) = 2
                    /\ IsNewOffer(sent[1]) /\ IsSelectionIs(sent[2])
                    /\ sent[1].offer = sent[2].offer
                    /\ sent[1].offer > Len(offers) /\ sent[1].offer <= Len(offers')
                    /\ offers'[sent[1].offer].src = req'.src
                    /\ offers'[sent[1].offer].dev = d
                    /\ devSel'[d] = sent[1].offer
                    /\ \A e \in seatDevs : e # d => devSel'[e] # sent[1].offer
               ELSE \A k \in 1..Len(sent) : ~IsNewOffer(sent[k]) /\ sent[k].offer = 0]_vars

\* A selection was set while the seat had a device of the owner, a wire
\* device of another client and a bridge device of another client.
C7_Witness ==
    /\ req.op = "set_selection" /\ req.ret = "Ok" /\ req.src # 0
    /\ selection = req.src /\ valid_serial(DevClient(req.dev), req.serial)
    /\ \E d, e \in seatDevs :
          /\ d # e /\ DevClient(d) # SrcClient(selection) /\ DevClient(e) # SrcClient(selection)
          /\ isXwm[d] /\ ~isXwm[e]
          /\ devSel[d] # 0 /\ devSel[e] # 0 /\ devSel[d] # devSel[e]
          /\ offers[devSel[d]].src = selection /\ offers[devSel[e]].src = selection
    /\ \E o \in seatDevs : DevClient(o) = SrcClient(selection) /\ devSel[o] = 0

(***************************************************************************)
(* C8: allocate() fails with XrdTooLong when the runtime directory is too  *)
(* long for the socket path to fit sun_path.                               *)
(* The code breaks it: the loop of allocate_socket only logs the           *)
(* XrdTooLong of bind_socket and ends with AddressesInUse.                 *)
(***************************************************************************)
C8_TooLongIsReported ==
    \A p \in Procs : (pc[p] = "failed" /\ AllTooLong(p) /\ errs[p] # <<>>) => result[p] = "XrdTooLong"

(***************************************************************************)
(* C9: an instance whose XDG_RUNTIME_DIR is not set gets XrdNotSet from    *)
(* allocate(), and never creates a socket, opens a lock file or tries a    *)
(* candidate index.                                                        *)
(***************************************************************************)
C9_NotSetTouchesNothing ==
    \A p \in Procs :
        env[p] < 0 =>
            /\ pc[p] \in {"idle", "failed"}
            /\ pc[p] = "failed" => result[p] = "XrdNotSet"
            /\ ~sock[p]
            /\ lfd[p] = 0 /\ ~lockHeld[p]
            /\ errs[p] = <<>>
            /\ \A i \in Indices : sockFile[i] # p

\* The call of an instance without XDG_RUNTIME_DIR has returned, while the
\* other instance is bound.
C9_Witness ==
    \E p, q \in Procs : env[p] < 0 /\ pc[p] = "failed" /\ result[p] = "XrdNotSet" /\ Live(q)

(***************************************************************************)
(* C10: allocate() returns AddressesInUse exactly when every candidate of  *)
(* the range failed; and it does not return it while some index can be     *)
(* locked and bound, the directory being left alone during the call.       *)
(***************************************************************************)
C10_InUseIffAllFailed ==
    \A p \in Procs :
        /\ Len(errs[p]) = LastIndex => (pc[p] = "failed" /\ result[p] = "AddressesInUse")
        /\ result[p] = "AddressesInUse" =>
              /\ Len(errs[p]) = LastIndex
              /\ quiet[p] => \A i \in Indices : ~Usable(p, i)

\* A call returned AddressesInUse in a directory nobody else touched
\* meanwhile: one index is held by the other instance, the rest is unusable.
C10_Witness ==
    \E p, q \in Procs :
        /\ result[p] = "AddressesInUse" /\ quiet[p]
        /\ Live(q) /\ errs[p][idx[q]] = "LockLockFile"
        /\ ~AllTooLong(p)

\* The errors bind_socket returns for a candidate (lines 70, 74, 77, 85, 91).
BindErrors == {"XrdTooLong", "OpenLockFile", "LockLockFile", "SocketStat", "BindFailed"}

\* The candidates the call of p has finished with, in the order of errs[p].
Tried(p) == Len(errs[p])

UnlinksStale(p, i) ==
    /\ idx[p] = i /\ pc[p] \in {"open", "flock", "lstat", "unlink", "bind"}
    /\ pc'[p] # pc[p]
    /\ sockFile[i] # 0 /\ sockFile'[i] = 0

\* The step is bind_socket returning an error for the candidate of p.
AbandonsCandidate(p) == Tried(p) < LastIndex /\ Len(errs'[p]) = Tried(p) + 1

(***************************************************************************)
(* C12: inside bind_socket an existing socket file is unlinked only by an  *)
(* instance that holds the flock it took on the lock file it opened for    *)
(* that candidate, and an instance comes to bind only with the file it     *)
(* found unlinked; when bind_socket fails for a candidate (lock-open,      *)
(* lock, stat other than ENOENT, bind), only the candidate is given up:    *)
(* its lock descriptor is closed, the socket descriptor and the files of   *)
(* the directory are kept, and the scan goes on with the next index, or    *)
(* ends after the last.                                                    *)
(***************************************************************************)
C12_UnlinkUnderLockThenBind ==
    [][\A p \in Procs :
         /\ \A i \in Indices : UnlinksStale(p, i) => (pc[p] = "unlink" /\ lockHeld[p] /\ lfd[p] # 0)
         /\ (pc[p] # "bind" /\ pc'[p] = "bind") =>
                (lockHeld'[p] /\ pc[p] \in {"lstat", "unlink"} /\ sockFile'[idx[p]] = 0)
         /\ AbandonsCandidate(p) =>
                /\ errs'[p][Tried(p) + 1] \in BindErrors
                /\ lfd'[p] = 0 /\ ~lockHeld'[p]
                /\ sockFile' = sockFile
                /\ IF idx[p] < LastIndex
                   THEN idx'[p] = idx[p] + 1 /\ pc'[p] = "open" /\ sock'[p] /\ result'[p] = "running"
                   ELSE pc'[p] = "failed"]_vars

\* After giving up the first candidate, an instance holds the lock of the
\* next and has found the leftover socket file it is about to unlink.
C12_Witness ==
    \E p \in Procs :
        /\ pc[p] = "unlink" /\ lockHeld[p] /\ idx[p] > 1
        /\ sockFile[idx[p]] = -1
        /\ errs[p][1] \in {"OpenLockFile", "LockLockFile", "SocketStat", "BindFailed"}

\* The step handles a set_selection whose serial is valid while the seat
\* does not allow the client to modify the primary selection.
SuppressedStep ==
    /\ req'.op = "set_selection"
    /\ valid_serial(DevClient(req'.dev), req'.serial)
    /\ ~may_modify_primary_selection(DevClient(req'.dev), req'.serial)

(***************************************************************************)
(* C19: set_selection with a valid serial while the seat does not allow    *)
(* the client to modify the primary selection is dropped without a word:   *)
(* the handler returns Ok, so the client gets no protocol error; the       *)
(* seat's active source and accepted serial, the sources, the offers of    *)
(* the devices and the events queued to the clients and to the bridge are  *)
(* as before.                                                              *)
(***************************************************************************)
C19_SuppressedSilently ==
    [][SuppressedStep =>
          /\ req'.ret = "Ok"
          /\ UNCHANGED <<selection, selSerial, srcState, seatDevs, isXwm, devSel, offers,
                         objIds, events, xqueue, dndActive, issued, changes>>]_vars

\* During a drag-and-drop a client asked, with a serial of its own, to set a
\* source of its own, while another client had a device on the seat.
C19_Witness ==
    /\ req.op = "set_selection" /\ req.ret = "Ok" /\ dndActive
    /\ valid_serial(DevClient(req.dev), req.serial)
    /\ req.src # 0 /\ lookup(DevClient(req.dev), req.src) /\ srcState[req.src] = "created"
    /\ selection = 0
    /\ \E d \in seatDevs : DevClient(d) # DevClient(req.dev)

(***************************************************************************)
(* C20: a client holds at most one device per seat: whatever devices were  *)
(* created and destroyed, the seat's primary-selection device set never    *)
(* contains two devices of the same client.                                *)
(* The code breaks it: the constructor takes any client and seat, nothing  *)
(* refuses a second device (there is no DeviceAlreadyExists error) and the *)
(* seat keeps every device it is given; C20_OneDevicePerClient is          *)
(* violated.                                                               *)
(***************************************************************************)
C20_OneDevicePerClient ==
    \A d, e \in seatDevs : d # e => DevClient(d) # DevClient(e)

\* The bridge events in the order the engine produced them: those the
\* bridge has taken, then those still in the queue.
BridgeOrder == xseen \o xqueue

\* The events of a sequence that announce a new offer carry ascending
\* offer ids: they are in the order in which the offers were created.
InCreationOrder(seq) ==
    \A k, l \in 1..Len(seq) :
        (k < l /\ IsNewOffer(seq[k]) /\ IsNewOffer(seq[l])) => seq[k].offer < seq[l].offer

(***************************************************************************)
(* C21: for a device of the X11 bridge a selection change puts SetOffer    *)
(* for the new offer and then SetSelection for the same offer on the       *)
(* bridge queue, next to each other; the bridge takes the events in the    *)
(* order they were put there, and that order is the one of the wire        *)
(* events of the ordinary clients: the order in which the offers were      *)
(* created.                                                                *)
(***************************************************************************)
C21_BridgeFifo ==
    LET B == BridgeOrder
    IN /\ \A k \in 1..Len(B) :
             B[k].ev = "PrimarySelectionSetOffer" =>
                /\ k < Len(B)
                /\ B[k + 1].ev = "PrimarySelectionSetSelection"
                /\ B[k + 1].offer = B[k].offer /\ B[k + 1].dev = B[k].dev
       /\ \A k \in 1..Len(B) :
             (B[k].ev = "PrimarySelectionSetSelection" /\ B[k].offer # 0) =>
                (k > 1 /\ B[k - 1].ev = "PrimarySelectionSetOffer" /\ B[k - 1].offer = B[k].offer)
       /\ InCreationOrder(B)
       /\ \A c \in Clients : InCreationOrder(events[c])

\* The bridge has taken SetOffer and SetSelection of one selection change
\* and those of the next are in the queue, while an ordinary client was
\* sent its offers as well.
C21_Witness ==
    /\ Len(xseen) >= 2 /\ xseen[1].ev = "PrimarySelectionSetOffer"
    /\ xseen[2].ev = "PrimarySelectionSetSelection" /\ xseen[2].offer = xseen[1].offer
    /\ \E k \in 1..Len(xqueue) : xqueue[k].ev = "PrimarySelectionSetOffer"
    /\ \E c \in Clients : \E k \in 1..Len(events[c]) : events[c][k].ev = "data_offer"

\* The step handles set_selection with the NONE source id, a valid serial
\* and a seat that allows the change.
ClearsSelectionStep ==
    /\ req'.op = "set_selection" /\ req'.src = 0
    /\ valid_serial(DevClient(req'.dev), req'.serial)
    /\ may_modify_primary_selection(DevClient(req'.dev), req'.serial)

(***************************************************************************)
(* C22: set_selection without a source that passes the serial check and    *)
(* the seat's policy returns Ok and leaves the seat without an active      *)
(* source; every device of the seat, whoever owns it, is sent exactly one  *)
(* selection event that carries no offer (the NONE id on the wire) and     *)
(* holds no offer afterwards; no offer is created and no object id used.   *)
(***************************************************************************)
C22_NoneClearsSelection ==
    [][ClearsSelectionStep =>
          /\ req'.ret = "Ok"
          /\ selection' = 0 /\ selSerial' = req'.serial
          /\ \A x \in SourceIds : srcState'[x] # "active"
          /\ offers' = offers /\ objIds' = objIds
          /\ \A d \in seatDevs :
                LET sent == SentTo(d)
                IN /\ Len(sent) = 1
                   /\ IsSelectionIs(sent[1]) /\ sent[1].offer = 0
                   /\ ~isXwm[d] => sent[1].id = 0
                   /\ devSel'[d] = 0]_vars

\* The selection was cleared by a client while a wire device and a bridge
\* device held offers of the source that was active.
C22_Witness ==
    /\ req.op = "set_selection" /\ req.src = 0 /\ req.ret = "Ok"
    /\ selSerial = req.serial /\ selection = 0
    /\ \E x \in SourceIds : srcState[x] = "cancelled"
    /\ \E d, e \in seatDevs : isXwm[d] /\ ~isXwm[e] /\ devSel[d] = 0 /\ devSel[e] = 0
    /\ Len(offers) >= 2
    /\ xqueue # <<>> /\ xqueue[Len(xqueue)].ev = "PrimarySelectionSetSelection"
    /\ xqueue[Len(xqueue)].offer = 0

\* The step is a teardown step of a device: the destroy request or
\* break_loops.
TeardownStep == req'.op \in {"destroy", "break_loops"}

\* The state of the engine: everything but the record of the last request.
engineVars == <<issued, serials, srcState, seatDevs, destroyed, isXwm, devSel, selection,
                selSerial, dndActive, offers, objIds, events, xqueue, changes>>

(***************************************************************************)
(* C23: after a teardown step of a device (destroy, or break_loops at the  *)
(* disconnect of its client) the device is not in the seat's device set    *)
(* and holds no offer; a teardown step for a device that was torn down     *)
(* before (break_loops after destroy, break_loops twice) leaves the seat's *)
(* device set, the offers of the devices and all other state of the        *)
(* engine as they were.                                                    *)
(***************************************************************************)
C23_TeardownIdempotent ==
    [][TeardownStep =>
          /\ req'.ret = "Ok"
          /\ req'.dev \notin seatDevs' /\ devSel'[req'.dev] = 0
          /\ req'.dev \in destroyed => UNCHANGED engineVars]_vars

\* break_loops ran for a device that had been torn down, while another
\* device held an offer of the active source.
C23_Witness ==
    /\ req.op = "break_loops" /\ req.dev \in destroyed /\ req.dev \notin seatDevs
    /\ selection # 0
    /\ \E e \in seatDevs : devSel[e] # 0

\* The devices of the clients other than the client of device d.
OtherClientsDevices(d) == {e \in DeviceIds : DevClient(e) # DevClient(d)}

(***************************************************************************)
(* C24: the destroy request of a device leaves the devices of the other    *)
(* clients as they were: they are in the seat's device set exactly if they *)
(* were, they hold the offer they held, nothing is added to or taken from  *)
(* the events queued for their clients or for the bridge, and the seat's   *)
(* active source is the same.                                              *)
(***************************************************************************)
C24_DestroyLeavesOthers ==
    [][req'.op = "destroy" =>
          /\ \A e \in OtherClientsDevices(req'.dev) :
                /\ (e \in seatDevs') = (e \in seatDevs)
                /\ devSel'[e] = devSel[e]
                /\ isXwm'[e] = isXwm[e]
                /\ events'[DevClient(e)] = events[DevClient(e)]
          /\ xqueue' = xqueue
          /\ selection' = selection /\ srcState' = srcState]_vars

\* A device was destroyed while a device of another client held an offer of
\* the active source.
C24_Witness ==
    /\ req.op = "destroy"
    /\ selection # 0
    /\ \E e \in OtherClientsDevices(req.dev) \cap seatDevs :
          devSel[e] # 0 /\ events[DevClient(e)] # <<>>

\* The events the step queued, for any client or for the bridge, that name
\* device d.
Naming(d) ==
    LET wire(c) == SubSeq(events'[c], Len(events[c]) + 1, Len(events'[c]))
        queue == SubSeq(xqueue', Len(xqueue) + 1, Len(xqueue'))
    IN {e \in UNION {{wire(c)[i] : i \in 1..Len(wire(c))} : c \in Clients}
              \cup {queue[i] : i \in 1..Len(queue)} : e.dev = d}

(***************************************************************************)
(* C25: a set_selection request or an unset handled after a device was     *)
(* destroyed, or torn down at the disconnect of its client, queues no      *)
(* event that names the device, on the wire or for the bridge, and creates *)
(* no offer for it.                                                        *)
(***************************************************************************)
C25_NoEventAfterTeardown ==
    [][req'.op \in {"set_selection", "unset"} =>
          \A d \in destroyed :
             /\ Naming(d) = {}
             /\ \A k \in (Len(offers) + 1)..Len(offers') : offers'[k].dev # d]_vars

\* A device that had been offered the selection was torn down, and a later
\* set_selection offered a new source to the devices that are left.
C25_Witness ==
    /\ req.op = "set_selection" /\ req.ret = "Ok" /\ req.src = selection /\ selection # 0
    /\ \E d \in destroyed, e \in seatDevs :
          /\ devSel[e] # 0 /\ offers[devSel[e]].src = selection
          /\ \E k \in 1..Len(offers) : offers[k].dev = d /\ offers[k].src # selection

\* The offer forwards to its source.
OfferLive(k) == offerSrc[k] # 0

\* The devices that hold offer k as their selection.
Holders(k) == {d \in DeviceIds : devSel[d] = k}

(***************************************************************************)
(* C26: every offer names one source and one device; the only device that  *)
(* can hold it is that device; a live offer forwards to the source it was  *)
(* created for, and that source is the active source of the seat; an offer *)
(* that is stale, because its source was destroyed, cancelled or           *)
(* superseded, stays stale.                                                *)
(***************************************************************************)
C26_OfferNeverOutlivesSource ==
    /\ [](/\ Len(offerSrc) = Len(offers)
          /\ \A k \in 1..Len(offers) :
                /\ offers[k].src \in SourceIds /\ offers[k].dev \in DeviceIds
                /\ Holders(k) \subseteq {offers[k].dev}
                /\ offerSrc[k] \in {0, offers[k].src}
                /\ OfferLive(k) => /\ srcState[offers[k].src] = "active"
                                   /\ selection = offers[k].src)
    /\ [][\A k \in 1..Len(offers) : ~OfferLive(k) => ~OfferLive(k)']_vars

\* The source of an offer was superseded by another source, and the seat
\* holds both the stale offer and a live offer of the new source.
C26_Witness ==
    \E k, j \in 1..Len(offers) :
       /\ ~OfferLive(k) /\ srcState[offers[k].src] = "cancelled"
       /\ OfferLive(j) /\ offers[j].src # offers[k].src

\* The step is an OfferRequestData on a live offer for a mime type that the
\* source of the offer has not advertised.
NotOfferedStep ==
    /\ req'.op = "receive"
    /\ OfferLive(oreq'.offer)
    /\ oreq'.mime \notin mimes[offerSrc[oreq'.offer]]

\* The step is an OfferRequestData that follows a refused one on the same
\* offer, now for a mime type that the source has advertised.
RetryStep ==
    /\ req.op = "receive" /\ req.ret = "MimeTypeNotOffered"
    /\ req'.op = "receive" /\ oreq'.offer = oreq.offer
    /\ oreq'.mime \in mimes[offerSrc[oreq.offer]]

(***************************************************************************)
(* C27: OfferRequestData on a live offer for a mime type that its source   *)
(* has not advertised returns MimeTypeNotOffered, forwards nothing to the  *)
(* client of the source and leaves the offer live; the request that        *)
(* follows it on the same offer with an advertised mime type returns Ok    *)
(* and is forwarded to the client of the source.                           *)
(***************************************************************************)
C27_MimeTypeNotOffered ==
    [][/\ NotOfferedStep =>
             /\ req'.ret = "MimeTypeNotOffered"
             /\ forwarded' = forwarded /\ events' = events
             /\ offerSrc' = offerSrc /\ offerSrc'[oreq'.offer] # 0
       /\ RetryStep =>
             /\ req'.ret = "Ok"
             /\ forwarded' = Append(forwarded, [src |-> offers[oreq.offer].src,
                                                mime |-> oreq'.mime,
                                                offer |-> oreq.offer])]_vars

\* A request for image/png was refused on an offer of a source that
\* advertises text/plain.
C27_Witness ==
    /\ req.op = "receive" /\ req.ret = "MimeTypeNotOffered"
    /\ oreq.mime = "image/png"
    /\ OfferLive(oreq.offer)
    /\ "text/plain" \in mimes[offerSrc[oreq.offer]]

(***************************************************************************)
(* src/src/config/handler.rs: ConfigProxyHandler.  handle_request decodes  *)
(* one ClientMessage and runs its handler; a handler that fails makes      *)
(* handle_request_ return the error, which handle_request logs.            *)
(***************************************************************************)
\* handle_request, lines 275-279, around the result ret of handle_request_
\* and the messages out that ConfigProxyHandler::send (lines 37-45) handed
\* to the client.
Handled(op, ret, out) ==
    /\ Len(responses) + Len(out) <= MaxResponses
    /\ responses' = responses \o out
    /\ creq' = [op |-> op, ret |-> ret, logged |-> ret # "Ok"]

\* get_seat, lines 174-182, and get_keymap, lines 184-189.
get_seat(x) == x \in cfgSeats

get_keymap(k) == k \in keymaps

\* get_device_handler_data, lines 150-172.
get_device_handler_data(d) == d \in InputDevices

\* bincode::decode_from_slice failed, lines 282-286.
handle_undecodable ==
    /\ Handled("undecodable", "ParsingFailed", <<>>)
    /\ UNCHANGED <<cfgSeats, seatKeymap, seatRate, seatSplit, shortcuts, keymaps, attach, next_id>>

\* handle_log_request, lines 51-78.
handle_log_request ==
    /\ Handled("Log", "Ok", <<>>)
    /\ UNCHANGED <<cfgSeats, seatKeymap, seatRate, seatSplit, shortcuts, keymaps, attach, next_id>>

\* handle_create_seat, lines 80-90: the new seat gets the next seat id.
handle_create_seat ==
    LET x == Cardinality(cfgSeats) + 1
    IN /\ x \in SeatIds
       /\ cfgSeats' = cfgSeats \cup {x}
       /\ Handled("CreateSeat", "Ok", <<[response |-> "CreateSeat", id |-> x]>>)
       /\ UNCHANGED <<seatKeymap, seatRate, seatSplit, shortcuts, keymaps, attach, next_id>>

\* handle_parse_keymap that answers only a keymap that parsed.
handle_parse_keymap_SilentFailure(valid) ==
    IF valid
    THEN /\ next_id \in KeymapIds
         /\ next_id' = next_id + 1
         /\ keymaps' = keymaps \cup {next_id}
         /\ Handled("ParseKeymap", "Ok", <<[response |-> "ParseKeymap", id |-> next_id]>>)
         /\ UNCHANGED <<cfgSeats, seatKeymap, seatRate, seatSplit, shortcuts, attach>>
    ELSE /\ Handled("ParseKeymap", "ParsingFailed", <<>>)
         /\ UNCHANGED <<cfgSeats, seatKeymap, seatRate, seatSplit, shortcuts, keymaps, attach,
                        next_id>>

\* handle_parse_keymap, lines 92-105, with id, lines 47-49.
handle_parse_keymap(valid) ==
    IF valid
    THEN /\ next_id \in KeymapIds
         /\ next_id' = next_id + 1
         /\ keymaps' = keymaps \cup {next_id}
         /\ Handled("ParseKeymap", "Ok", <<[response |-> "ParseKeymap", id |-> next_id]>>)
         /\ UNCHANGED <<cfgSeats, seatKeymap, seatRate, seatSplit, shortcuts, attach>>
    ELSE /\ Handled("ParseKeymap", "ParsingFailed",
                    <<[response |-> "ParseKeymap", id |-> KeymapInvalid]>>)
         /\ UNCHANGED <<cfgSeats, seatKeymap, seatRate, seatSplit, shortcuts, keymaps, attach,
                        next_id>>

\* handle_set_keymap, lines 107-116.
handle_set_keymap(x, k) ==
    IF ~get_seat(x)
    THEN /\ Handled("SeatSetKeymap", "SeatDoesNotExist", <<>>)
         /\ UNCHANGED <<cfgSeats, seatKeymap, seatRate, seatSplit, shortcuts, keymaps, attach,
                        next_id>>
    ELSE IF k # KeymapInvalid /\ ~get_keymap(k)
    THEN /\ Handled("SeatSetKeymap", "KeymapDoesNotExist", <<>>)
         /\ UNCHANGED <<cfgSeats, seatKeymap, seatRate, seatSplit, shortcuts, keymaps, attach,
                        next_id>>
    ELSE /\ seatKeymap' = [seatKeymap EXCEPT ![x] = k]
         /\ Handled("SeatSetKeymap", "Ok", <<>>)
         /\ UNCHANGED <<cfgSeats, seatRate, seatSplit, shortcuts, keymaps, attach, next_id>>

\* handle_focus, lines 118-122; the focus is the seat's.
handle_focus(x, direction) ==
    /\ Handled("Focus", IF get_seat(x) THEN "Ok" ELSE "SeatDoesNotExist", <<>>)
    /\ UNCHANGED <<cfgSeats, seatKeymap, seatRate, seatSplit, shortcuts, keymaps, attach, next_id>>

\* handle_get_repeat_rate, lines 124-131.
handle_get_repeat_rate(x) ==
    /\ IF get_seat(x)
       THEN Handled("SeatGetRepeatRate", "Ok",
                    <<[response |-> "GetRepeatRate", id |-> seatRate[x]]>>)
       ELSE Handled("SeatGetRepeatRate", "SeatDoesNotExist", <<>>)
    /\ UNCHANGED <<cfgSeats, seatKeymap, seatRate, seatSplit, shortcuts, keymaps, attach, next_id>>

\* handle_set_repeat_rate, lines 133-148.
handle_set_repeat_rate(x, r) ==
    LET ret == IF ~get_seat(x) THEN "SeatDoesNotExist"
               ELSE IF r[1] < 0 THEN "NegativeRate"
               ELSE IF r[2] < 0 THEN "NegativeDelay"
               ELSE "Ok"
    IN /\ Handled("SeatSetRepeatRate", ret, <<>>)
       /\ seatRate' = IF ret = "Ok" THEN [seatRate EXCEPT ![x] = r] ELSE seatRate
       /\ UNCHANGED <<cfgSeats, seatKeymap, seatSplit, shortcuts, keymaps, attach, next_id>>

\* handle_set_seat, lines 191-200.
handle_set_seat(d, x) ==
    LET ret == IF x # SeatInvalid /\ ~get_seat(x) THEN "SeatDoesNotExist"
               ELSE IF ~get_device_handler_data(d) THEN "DeviceDoesNotExist"
               ELSE "Ok"
    IN /\ Handled("SetSeat", ret, <<>>)
       /\ attach' = IF ret = "Ok" THEN [attach EXCEPT ![d] = x] ELSE attach
       /\ UNCHANGED <<cfgSeats, seatKeymap, seatRate, seatSplit, shortcuts, keymaps, next_id>>

\* handle_get_split, lines 202-213.
handle_get_split(x) ==
    /\ IF get_seat(x)
       THEN Handled("GetSplit", "Ok",
                    <<[response |-> "GetSplit",
                       id |-> IF seatSplit[x] = "None" THEN "Horizontal" ELSE seatSplit[x]]>>)
       ELSE Handled("GetSplit", "SeatDoesNotExist", <<>>)
    /\ UNCHANGED <<cfgSeats, seatKeymap, seatRate, seatSplit, shortcuts, keymaps, attach, next_id>>

\* handle_set_split, lines 215-219.
handle_set_split(x, axis) ==
    /\ Handled("SetSplit", IF get_seat(x) THEN "Ok" ELSE "SeatDoesNotExist", <<>>)
    /\ seatSplit' = IF get_seat(x) THEN [seatSplit EXCEPT ![x] = axis] ELSE seatSplit
    /\ UNCHANGED <<cfgSeats, seatKeymap, seatRate, shortcuts, keymaps, attach, next_id>>

\* handle_add_shortcut, lines 221-230.
handle_add_shortcut(x, sc) ==
    /\ Handled("AddShortcut", IF get_seat(x) THEN "Ok" ELSE "SeatDoesNotExist", <<>>)
    /\ shortcuts' = IF get_seat(x) THEN [shortcuts EXCEPT ![x] = @ \cup {sc}] ELSE shortcuts
    /\ UNCHANGED <<cfgSeats, seatKeymap, seatRate, seatSplit, keymaps, attach, next_id>>

\* handle_get_input_devices, lines 232-250, and handle_get_seats, lines
\* 252-264.
handle_get_input_devices ==
    /\ Handled("GetInputDevices", "Ok", <<[response |-> "GetInputDevices", id |-> InputDevices]>>)
    /\ UNCHANGED <<cfgSeats, seatKeymap, seatRate, seatSplit, shortcuts, keymaps, attach, next_id>>

handle_get_seats ==
    /\ Handled("GetSeats", "Ok", <<[response |-> "GetSeats", id |-> cfgSeats]>>)
    /\ UNCHANGED <<cfgSeats, seatKeymap, seatRate, seatSplit, shortcuts, keymaps, attach, next_id>>

\* handle_run, lines 266-273.
handle_run(forker) ==
    /\ Handled("Run", IF forker THEN "Ok" ELSE "NoForker", <<>>)
    /\ UNCHANGED <<cfgSeats, seatKeymap, seatRate, seatSplit, shortcuts, keymaps, attach, next_id>>

\* The requests the handler accepts without a handler.
Unimplemented == {"RemoveShortcut", "Move", "RemoveSeat"}

\* A handler that implements RemoveSeat and RemoveShortcut.
handle_unimplemented_Removes(op, x) ==
    /\ Handled(op, "Ok", <<>>)
    /\ cfgSeats' = IF op = "RemoveSeat" THEN cfgSeats \ {x} ELSE cfgSeats
    /\ shortcuts' = IF op = "RemoveShortcut" /\ x \in SeatIds
                    THEN [shortcuts EXCEPT ![x] = {}] ELSE shortcuts
    /\ UNCHANGED <<seatKeymap, seatRate, seatSplit, keymaps, attach, next_id>>

\* handle_request_, lines 309, 311 and 314: the arms of RemoveShortcut, Move
\* and RemoveSeat are empty.
handle_unimplemented(op, x) ==
    /\ Handled(op, "Ok", <<>>)
    /\ UNCHANGED <<cfgSeats, seatKeymap, seatRate, seatSplit, shortcuts, keymaps, attach, next_id>>

\* handle_request_, lines 281-318.
NextCfg ==
    \/ handle_undecodable /\ OnlyCfg
    \/ handle_log_request /\ OnlyCfg
    \/ handle_create_seat /\ OnlyCfg
    \/ \E valid \in BOOLEAN : handle_parse_keymap(valid) /\ OnlyCfg
    \/ \E x \in SeatArgs, k \in KeymapArgs : handle_set_keymap(x, k) /\ OnlyCfg
    \/ \E x \in SeatArgs : handle_get_repeat_rate(x) /\ OnlyCfg
    \/ \E x \in SeatArgs, r \in RateArgs : handle_set_repeat_rate(x, r) /\ OnlyCfg
    \/ \E d \in DeviceArgs, x \in SeatArgs : handle_set_seat(d, x) /\ OnlyCfg
    \/ \E x \in SeatArgs : handle_get_split(x) /\ OnlyCfg
    \/ \E x \in SeatArgs, axis \in Axes : handle_set_split(x, axis) /\ OnlyCfg
    \/ \E x \in SeatArgs, sc \in ShortcutArgs : handle_add_shortcut(x, sc) /\ OnlyCfg
    \/ \E x \in SeatArgs, direction \in Directions : handle_focus(x, direction) /\ OnlyCfg
    \/ handle_get_input_devices /\ OnlyCfg
    \/ handle_get_seats /\ OnlyCfg
    \/ \E forker \in BOOLEAN : handle_run(forker) /\ OnlyCfg
    \/ \E op \in Unimplemented, x \in SeatArgs : handle_unimplemented(op, x) /\ OnlyCfg

InitConfig == InitCfg /\ IdleAlloc /\ IdleAcc /\ IdleSel /\ IdleDbus /\ IdlePopup /\ IdleInput /\ IdleBackend

SpecConfig == InitConfig /\ [][NextCfg]_vars

\* The step handles one of the unimplemented requests.
UnimplementedStep == creq'.op \in Unimplemented

(***************************************************************************)
(* C28: handling Move, RemoveShortcut or RemoveSeat returns Ok, hands no   *)
(* response to the client and leaves the seats, the shortcuts, the keymaps *)
(* (parsed and set on seats), the attachments of the input devices and the *)
(* id counter as they were.                                                *)
(***************************************************************************)
C28_UnimplementedAreNoOps ==
    [][UnimplementedStep =>
          /\ creq'.ret = "Ok" /\ ~creq'.logged
          /\ responses' = responses
          /\ UNCHANGED <<cfgSeats, shortcuts, keymaps, seatKeymap, attach, next_id>>
          /\ UNCHANGED <<seatRate, seatSplit>>]_vars

\* RemoveSeat was handled while a seat with a shortcut, a parsed keymap and
\* an attached input device existed.
C28_Witness ==
    /\ creq.op = "RemoveSeat"
    /\ \E x \in cfgSeats : shortcuts[x] # {} /\ \E d \in InputDevices : attach[d] = x
    /\ keymaps # {}

\* The request of the step names a source that the client does not have.
UnknownSource == req'.src # 0 /\ ~lookup(DevClient(req'.dev), req'.src)

\* The request of the step passes the check of the serial and the check of
\* the seat.
PassesChecks ==
    /\ valid_serial(DevClient(req'.dev), req'.serial)
    /\ may_modify_primary_selection(DevClient(req'.dev), req'.serial)

(***************************************************************************)
(* C29: set_selection checks the serial, then the seat, then looks the     *)
(* source up.  A request that names a source the client does not have      *)
(* returns Ok when its serial is invalid or the seat disallows the change, *)
(* and the client error when both checks pass; a request returns the       *)
(* client error only in that case, and then nothing of the seat's, the     *)
(* clients' or the devices' state changes.                                 *)
(***************************************************************************)
C29_ChecksBeforeLookup ==
    [][req'.op = "set_selection" =>
          /\ UnknownSource /\ ~PassesChecks => req'.ret = "Ok" /\ UNCHANGED engineVars
          /\ UnknownSource /\ PassesChecks => req'.ret = "ClientError"
          /\ req'.ret = "ClientError" => UnknownSource /\ PassesChecks /\ UNCHANGED engineVars]_vars

\* A request with a serial the seat never issued and a source that was
\* never created returned Ok, with a selection set on the seat.
C29_Witness ==
    /\ req.op = "set_selection" /\ req.ret = "Ok"
    /\ req.src # 0 /\ srcState[req.src] = "none"
    /\ req.serial \notin issued[DevClient(req.dev)]
    /\ selection # 0

\* The events that name a device, on the wire of client c.
WireEvents(c) == {events[c][i] : i \in 1..Len(events[c])} \ {e \in {events[c][i] : i \in 1..Len(events[c])} : e.dev = 0}

\* The events pushed on the bridge queue, taken by the bridge or not.
BridgeEvents == {xqueue[i] : i \in 1..Len(xqueue)} \cup {xseen[i] : i \in 1..Len(xseen)}

\* The offers that took an object id of client c.
WithClientId(c) == {k \in 1..Len(offers) : DevClient(offers[k].dev) = c /\ offers[k].id # 0}

(***************************************************************************)
(* C30: every wire event that names a device was sent for a device without *)
(* is_xwm, to the client of that device, and every event on the bridge     *)
(* queue was pushed for a device with is_xwm; the offer of an is_xwm       *)
(* device has the wire id NONE, the offers of the other devices took the   *)
(* object ids of their clients, one each and no other; no two offers have  *)
(* the same offer_id.                                                      *)
(***************************************************************************)
C30_RoutingExclusive ==
    /\ \A c \in Clients : \A e \in WireEvents(c) : ~isXwm[e.dev] /\ DevClient(e.dev) = c
    /\ \A e \in BridgeEvents : isXwm[e.dev]
    /\ \A k \in 1..Len(offers) : (offers[k].id = 0) = isXwm[offers[k].dev]
    /\ \A c \in Clients :
          /\ objIds[c] = Cardinality(WithClientId(c))
          /\ {offers[k].id : k \in WithClientId(c)} = 1..objIds[c]
    /\ \A j, k \in 1..Len(offers) : j # k => offers[j].offer_id # offers[k].offer_id

\* One selection change reached an is_xwm device and a device without it.
C30_Witness ==
    \E j, k \in 1..Len(offers) :
       /\ offers[j].src = offers[k].src
       /\ isXwm[offers[j].dev] /\ ~isXwm[offers[k].dev]
       /\ \E e \in BridgeEvents : e.dev = offers[j].dev
       /\ \E e \in WireEvents(DevClient(offers[k].dev)) : e.dev = offers[k].dev

\* The errors of bind_socket that come after the lock was acquired.
AfterLockErrors == {"SocketStat", "BindFailed"}

(***************************************************************************)
(* C31: an instance that is between two candidates, or whose               *)
(* allocate_socket returned an error, has no lock descriptor open and      *)
(* holds no lock, and after an error it has no socket descriptor either;   *)
(* when allocate_socket returns a handle, the instance holds the lock it   *)
(* took for the returned index, and its socket descriptor is the one bound *)
(* to the returned path.                                                   *)
(***************************************************************************)
C31_OnlyReturnedLockHeld ==
    /\ [](\A p \in Procs :
            /\ pc[p] \in {"open", "failed"} => lfd[p] = 0 /\ ~lockHeld[p]
            /\ pc[p] = "failed" => ~sock[p])
    /\ [][\A p \in Procs :
            pc[p] # "live" /\ pc'[p] = "live" =>
               /\ idx'[p] = idx[p]
               /\ lockHeld[p] /\ lockHeld'[p] /\ lfd[p] # 0 /\ lfd'[p] = lfd[p]
               /\ sock'[p] /\ sockFile'[idx[p]] = p]_vars

\* allocate_socket returned a handle after it had given up a candidate
\* whose lock it had acquired.
C31_Witness ==
    \E p \in Procs :
       /\ pc[p] = "live" /\ idx[p] > 1
       /\ \E i \in 1..Len(errs[p]) : errs[p][i] \in AfterLockErrors

(***************************************************************************)
(* src/src/dbus/incoming.rs: Incoming::run and Incoming::handle_msg.       *)
(***************************************************************************)
\* a + b on u32: the sum modulo 2^32, and whether it passed 2^32.
add32(a, b) ==
    LET lo == a[2] + b[2]
        hi == a[1] + b[1] + (lo \div Half)
    IN [val |-> <<hi % Half, lo % Half>>, overflow |-> hi >= Half]

\* Line 66: headers_len + (headers_len.wrapping_neg() & 7); the three low
\* bits of the negation are those of the negated low half.
dyn_header_len(h) == add32(h, <<0, ((Half - h[2]) % Half) % 8>>)

\* Line 91 with get in the place of remove: the handler stays in the table.
take_reply_handler_Keeps(r) == reply_handlers

\* Line 91: self.socket.reply_handlers.remove(&serial).
take_reply_handler(r) == [reply_handlers EXCEPT ![r] = NoHandler]

\* Incoming::run that logs the error of handle_msg and goes on.
run_result_Continues(res) ==
    /\ dpos' = IF res = "panic" THEN "panicked" ELSE "top"
    /\ UNCHANGED <<dead, kills>>

\* Incoming::run, lines 34-42, with the result of handle_msg: an error is
\* logged, the socket killed and the loop left; a panic ends the task.
run_result(res) ==
    IF res = "Ok" THEN dpos' = "top" /\ UNCHANGED <<dead, kills>>
    ELSE IF res = "panic" THEN dpos' = "panicked" /\ UNCHANGED <<dead, kills>>
    ELSE dpos' = "returned" /\ dead' = TRUE /\ kills' = kills + 1

\* Incoming::run, lines 30-33 and the call at line 34: the loop returns if
\* the socket is dead, and waits in handle_msg for a message otherwise.
run_loop ==
    /\ dpos = "top"
    /\ dpos' = IF dead THEN "returned" ELSE "await"
    /\ UNCHANGED <<dead, kills, reply_handlers, signal_handlers, invoked, dfds, nmsgs, dlast>>

(***************************************************************************)
(* Incoming::handle_msg, lines 46-170, for the message m.  An overflow of  *)
(* the u32 additions of lines 66-67 panics in a build with overflow        *)
(* checks; in a build that wraps, the buffer is filled for the wrapped     *)
(* length, and the slice of line 73 panics or the headers do not parse     *)
(* (out).                                                                  *)
(***************************************************************************)
handle_msg(m, out) ==
    LET dyn == dyn_header_len(m.headers_len)
        remaining == add32(dyn.val, m.body_len)
        start == add32(<<0, 16>>, dyn.val)
        r == m.reply_serial
        reply == m.ty \in {"METHOD_RETURN", "ERROR"}
        found == reply /\ r # 0 /\ reply_handlers[r] # NoHandler
        early == IF ~m.io THEN "IoError"
                 ELSE IF ~m.endian_ok THEN "InvalidEndianess"
                 ELSE IF m.protocol # 1 THEN "InvalidProtocol"
                 ELSE IF dyn.overflow \/ remaining.overflow THEN out
                 ELSE IF ~m.headers_ok THEN "HeaderError"
                 ELSE IF dfds + m.newfds < m.unix_fds THEN "TooFewFds"
                 ELSE "go"
        res == IF early # "go" THEN early
               ELSE IF reply /\ r = 0 THEN "NoReplySerial"
               ELSE IF found /\ m.ty = "ERROR" /\ ~m.error_name THEN "NoErrorName"
               ELSE IF found /\ m.ty = "ERROR" /\ m.signature = "s" /\ ~m.body_ok THEN "BodyError"
               ELSE IF m.ty = "SIGNAL" /\ m.member = "none" THEN "MissingSignalHeaders"
               ELSE "Ok"
        \* the reply handler that is invoked (handle or handle_error)
        ran == IF found /\ res = "Ok" /\ (m.ty = "ERROR" \/ m.signature = reply_handlers[r])
               THEN r ELSE 0
        signalled == /\ early = "go" /\ m.ty = "SIGNAL" /\ m.member \in signal_handlers
        \* the log::error! of lines 111, 120, 145 and 153
        logged == \/ found /\ res = "Ok" /\ m.ty = "METHOD_RETURN"
                     /\ (m.signature # reply_handlers[r] \/ ~m.handler_ok)
                  \/ signalled /\ (m.signature # "s" \/ ~m.handler_ok)
    IN /\ dpos = "await"
       /\ nmsgs < MaxMsgs
       /\ (dyn.overflow \/ remaining.overflow \/ out = "panic")
       /\ nmsgs' = nmsgs + 1
       /\ dfds' = (IF m.io THEN dfds + m.newfds ELSE dfds) - (IF early = "go" THEN m.unix_fds ELSE 0)
       /\ reply_handlers' = IF early = "go" /\ found THEN take_reply_handler(r) ELSE reply_handlers
       /\ invoked' = IF ran # 0 THEN [invoked EXCEPT ![ran] = @ + 1] ELSE invoked
       /\ dlast' = [msg |-> m, res |-> res, dyn |-> dyn.val, pos |-> start.val, ran |-> ran,
                    logged |-> logged]
       /\ run_result(res)
       /\ UNCHANGED signal_handlers

NextDbus ==
    \/ run_loop /\ OnlyDbus
    \/ \E m \in Messages, out \in {"panic", "HeaderError"} : handle_msg(m, out) /\ OnlyDbus

InitIncoming == InitDbus /\ IdleAlloc /\ IdleAcc /\ IdleSel /\ IdleCfg /\ IdlePopup /\ IdleInput /\ IdleBackend

SpecDbus == InitIncoming /\ [][NextDbus]_vars

\* Errors of handle_msg raised before the message is dispatched on its type.
EarlyErrors == {"IoError", "InvalidEndianess", "InvalidProtocol", "HeaderError", "TooFewFds",
                "panic"}

\* handle_msg has run for a reply (METHOD_RETURN or ERROR) that carries a
\* reply serial, and reached the lookup of line 91.
ReplyStep ==
    /\ nmsgs' # nmsgs
    /\ dlast'.msg.ty \in {"METHOD_RETURN", "ERROR"}
    /\ dlast'.msg.reply_serial # 0
    /\ dlast'.res \notin EarlyErrors

\* C32: a reply handler is invoked at most once.  A reply with its serial
\* removes it from the table; a later reply with that serial finds no handler
\* and is ignored (nothing invoked, nothing killed); a METHOD_RETURN whose
\* signature differs from the handler's consumes the handler, invokes nothing
\* and does not kill the socket.
C32_ReplyHandlerOnce ==
    /\ [](\A r \in DbusSerials : invoked[r] <= 1)
    /\ [][ReplyStep =>
            LET m == dlast'.msg
                r == m.reply_serial
            IN /\ reply_handlers'[r] = NoHandler
               /\ reply_handlers[r] = NoHandler =>
                    /\ dlast'.ran = 0 /\ dlast'.res = "Ok" /\ dpos' = "top"
                    /\ UNCHANGED <<invoked, dead, kills>>
               /\ (m.ty = "METHOD_RETURN" /\ reply_handlers[r] # NoHandler
                   /\ m.signature # reply_handlers[r]) =>
                    /\ dlast'.ran = 0 /\ dlast'.res = "Ok" /\ dlast'.logged /\ dpos' = "top"
                    /\ UNCHANGED <<invoked, dead, kills>>
               /\ dlast'.ran # 0 => dlast'.ran = r /\ reply_handlers[r] # NoHandler]_vars

\* A handler was invoked, and a second reply with its serial was ignored.
C32_Witness ==
    /\ dlast.msg.ty \in {"METHOD_RETURN", "ERROR"}
    /\ dlast.msg.reply_serial # 0
    /\ invoked[dlast.msg.reply_serial] = 1
    /\ dlast.ran = 0 /\ dlast.res = "Ok"
    /\ ~dead

\* Results of handle_msg that are errors of the message.
MessageErrors == {"IoError", "InvalidEndianess", "InvalidProtocol", "HeaderError", "TooFewFds",
                  "NoReplySerial", "NoErrorName", "BodyError", "MissingSignalHeaders"}

\* C33: the incoming loop stops at the first message-level error: the socket
\* is killed exactly once and the loop returns, and no message is processed
\* once the loop has returned or found the socket dead.  A failure of a
\* handler (wrong signature, handler error) is logged and the loop goes on.
C33_StopsAtFirstError ==
    /\ [](kills <= 1)
    /\ [][nmsgs' # nmsgs =>
            /\ ~dead /\ dpos = "await"
            /\ dlast'.res \in MessageErrors =>
                 dead' /\ kills' = kills + 1 /\ dpos' = "returned"
            /\ dlast'.res = "Ok" => dpos' = "top" /\ UNCHANGED <<dead, kills>>
            /\ dlast'.logged => dlast'.res = "Ok"]_vars
    /\ [][dead => nmsgs' = nmsgs /\ dpos' \in {dpos, "returned"}]_vars
    /\ [][dpos = "returned" => UNCHANGED dbusVars]_vars

\* The second message had too few fds: the socket is dead, killed once, the
\* loop has returned with a message still allowed by the bound.
C33_Witness ==
    /\ dlast.res = "TooFewFds"
    /\ nmsgs = 2 /\ nmsgs < MaxMsgs
    /\ dead /\ kills = 1 /\ dpos = "returned"

\* C34: for every headers_len and body_len of a message whose fixed header
\* was accepted, dyn_header_len is the smallest multiple of 8 that is not
\* smaller than headers_len, the body parser starts at 16 + dyn_header_len,
\* and neither dyn_header_len nor dyn_header_len + body_len passes 2^32.
C34_LengthsFit ==
    dlast.res \notin {"none", "IoError", "InvalidEndianess", "InvalidProtocol"} =>
        LET h == dlast.msg.headers_len
            d == dlast.dyn
        IN /\ ~dyn_header_len(h).overflow
           /\ ~add32(d, dlast.msg.body_len).overflow
           /\ d[2] % 8 = 0
           /\ d[1] = h[1] /\ d[2] - h[2] \in 0..7
           /\ dlast.pos = <<d[1], d[2] + 16>>

(***************************************************************************)
(* src/src/ifs/wl_surface/xdg_surface/xdg_popup/mod.rs                     *)
(***************************************************************************)
MaxMoves == 2

\* The position of the output of the parent's workspace (line 99).
OutputPos == <<0, 0, 8, 8>>

ParentRects == {<<1, 1, 5, 5>>, <<6, 0, 10, 4>>}

Adjustments ==
    {{}, {"FLIP_X", "FLIP_Y"}, {"SLIDE_X", "SLIDE_Y"}, {"RESIZE_X", "RESIZE_Y"},
     {"FLIP_X", "FLIP_Y", "SLIDE_X", "SLIDE_Y", "RESIZE_X", "RESIZE_Y"}}

Positioners ==
    [ca : Adjustments, x : {-3, 6}, y : {0, 7}, fx : {1}, fy : {0}, w : {4}, h : {2}]

\* Rect::move_.
move_(r, dx, dy) == <<r[1] + dx, r[2] + dy, r[3] + dx, r[4] + dy>>

\* XdgPositioned::get_position(flip_x, flip_y).
get_position(p, flip_x, flip_y) ==
    LET px == IF flip_x THEN p.fx ELSE p.x
        py == IF flip_y THEN p.fy ELSE p.y
    IN <<px, py, px + p.w, py + p.h>>

\* Lines 165-171 without the new relative rectangle.
resized_rel_Stale(rel, abs, pabs) == rel

\* Lines 165-171: Rect::new_sized(abs.x1 - parent.x1, abs.y1 - parent.y1,
\* abs.width, abs.height).
resized_rel(rel, abs, pabs) ==
    <<abs[1] - pabs[1], abs[2] - pabs[2],
      abs[1] - pabs[1] + (abs[3] - abs[1]), abs[2] - pabs[2] + (abs[4] - abs[2])>>

\* Rect::get_overflow of the output position for the rectangle r.
get_overflow(r) ==
    [left |-> OutputPos[1] - r[1], right |-> r[3] - OutputPos[3],
     top |-> OutputPos[2] - r[2], bottom |-> r[4] - OutputPos[4]]

\* update_position, lines 102-126: the relative rectangle after the flips
\* that remove an overflow of their axis.
flipped(p, pabs) ==
    LET ov == get_overflow(move_(get_position(p, FALSE, FALSE), pabs[1], pabs[2]))
        flip_x == "FLIP_X" \in p.ca /\ (ov.left > 0 \/ ov.right > 0)
        flip_y == "FLIP_Y" \in p.ca /\ (ov.top > 0 \/ ov.bottom > 0)
        adj == get_overflow(move_(get_position(p, flip_x, flip_y), pabs[1], pabs[2]))
    IN get_position(p, flip_x /\ ~(adj.left > 0 \/ adj.right > 0),
                       flip_y /\ ~(adj.top > 0 \/ adj.bottom > 0))

\* update_position, lines 127-146: the relative rectangle rel after the
\* slides.
slid(p, pabs, rel) ==
    LET abs == move_(rel, pabs[1], pabs[2])
        ov == get_overflow(abs)
        dx == IF "SLIDE_X" \in p.ca /\ (ov.left > 0 \/ ov.right > 0)
              THEN IF ov.left > 0 \/ ov.left + ov.right > 0
                   THEN pabs[1] - abs[1] ELSE pabs[3] - abs[3]
              ELSE 0
        dy == IF "SLIDE_Y" \in p.ca /\ (ov.top > 0 \/ ov.bottom > 0)
              THEN IF ov.top > 0 \/ ov.top + ov.bottom > 0
                   THEN pabs[2] - abs[2] ELSE pabs[4] - abs[4]
              ELSE 0
    IN move_(rel, dx, dy)

\* update_position, lines 147-173: the rectangles after the resize of the
\* relative rectangle rel, and whether Rect::new got x1 <= x2 and y1 <= y2.
resized(p, pabs, rel) ==
    LET Max0(a) == IF a > 0 THEN a ELSE 0
        abs == move_(rel, pabs[1], pabs[2])
        ov == get_overflow(abs)
        dx1 == IF "RESIZE_X" \in p.ca THEN Max0(ov.left) ELSE 0
        dx2 == IF "RESIZE_X" \in p.ca THEN 0 - Max0(ov.right) ELSE 0
        dy1 == IF "RESIZE_Y" \in p.ca THEN Max0(ov.top) ELSE 0
        dy2 == IF "RESIZE_Y" \in p.ca THEN 0 - Max0(ov.bottom) ELSE 0
        new_abs == <<abs[1] + dx1, abs[2] + dy1, abs[3] + dx2, abs[4] + dy2>>
    IN IF dx1 > 0 \/ dx2 < 0 \/ dy1 > 0 \/ dy2 < 0
       THEN [rel |-> resized_rel(rel, new_abs, pabs), abs |-> new_abs,
             ok |-> new_abs[1] <= new_abs[3] /\ new_abs[2] <= new_abs[4], how |-> "resize"]
       ELSE [rel |-> rel, abs |-> abs, ok |-> TRUE, how |-> "kept"]

(***************************************************************************)
(* XdgPopup::update_position, lines 89-178, for the positioner p and a     *)
(* parent at pabs that has a workspace or not (ws): the relative and the   *)
(* absolute rectangle it stores, and whether the unwrap of line 164        *)
(* succeeded.                                                              *)
(***************************************************************************)
update_position(p, pabs, ws) ==
    LET rel0 == get_position(p, FALSE, FALSE)
        abs0 == move_(rel0, pabs[1], pabs[2])
        ov0 == get_overflow(abs0)
    IN IF ~ws \/ (ov0.left <= 0 /\ ov0.right <= 0 /\ ov0.top <= 0 /\ ov0.bottom <= 0)
       THEN [rel |-> rel0, abs |-> abs0, ok |-> TRUE, how |-> "plain"]
       ELSE CHOOSE u \in {resized(p, pabs, r2) :
                             r2 \in {slid(p, pabs, r1) : r1 \in {flipped(p, pabs)}}} : TRUE

\* The state of the popup after update_position; a failed unwrap panics
\* before anything is stored.
Positioned(op, p) ==
    LET u == update_position(p, parent_abs, parent_ws)
    IN /\ relative_position' = IF u.ok THEN u.rel ELSE relative_position
       /\ absolute_desired_extents' = IF u.ok THEN u.abs ELSE absolute_desired_extents
       /\ popup' = IF u.ok THEN popup ELSE "panicked"
       /\ plast' = [op |-> op, buffer |-> FALSE, linked |-> workspace_link,
                    ret |-> IF u.ok THEN u.how ELSE "panic"]

\* XdgPopup::initial_configure, lines 320-332.
initial_configure ==
    /\ popup = "alive" /\ parent
    /\ Positioned("initial_configure", positioner)
    /\ UNCHANGED <<parent, parent_ws, parent_abs, positioner, display_link, workspace_link,
                   ws_stacked, root_stacked, popup_done, pmoves>>

\* XdgPopup::reposition, lines 209-230, with the value p of the positioner
\* the request names.
reposition(p) ==
    /\ popup = "alive"
    /\ pmoves < MaxMoves
    /\ pmoves' = pmoves + 1
    /\ positioner' = p
    /\ IF parent THEN Positioned("reposition", p)
       ELSE /\ plast' = [op |-> "reposition", buffer |-> FALSE, linked |-> workspace_link,
                         ret |-> "none"]
            /\ UNCHANGED <<relative_position, absolute_desired_extents, popup>>
    /\ UNCHANGED <<parent, parent_ws, parent_abs, display_link, workspace_link,
                   ws_stacked, root_stacked, popup_done>>

\* The parent surface gets new extents or another workspace (the cells read
\* at lines 95, 98, 183 and 233).
parent_changed(r, ws) ==
    /\ popup = "alive" /\ parent
    /\ pmoves < MaxMoves
    /\ pmoves' = pmoves + 1
    /\ parent_abs' = r /\ parent_ws' = ws
    /\ plast' = [op |-> "parent_changed", buffer |-> FALSE, linked |-> workspace_link,
                 ret |-> "none"]
    /\ UNCHANGED <<parent, positioner, relative_position, absolute_desired_extents,
                   display_link, workspace_link, ws_stacked, root_stacked, popup_done, popup>>

\* XdgPopup::update_absolute_position, lines 180-187.
update_absolute_position ==
    /\ popup = "alive"
    /\ absolute_desired_extents' =
         IF parent THEN move_(relative_position, parent_abs[1], parent_abs[2])
         ELSE absolute_desired_extents
    /\ plast' = [op |-> "update_absolute_position", buffer |-> FALSE, linked |-> workspace_link,
                 ret |-> "ok"]
    /\ UNCHANGED <<parent, parent_ws, parent_abs, positioner, relative_position,
                   display_link, workspace_link, ws_stacked, root_stacked, popup_done, popup,
                   pmoves>>

\* Node::destroy_node, lines 280-281, called while the RefMut guards of the
\* cells in held are alive: borrow_mut of a cell in held panics.
destroy_node_panics(held) == \E c \in {"display_link", "workspace_link"} : c \in held

\* Node::destroy_node, lines 279-284, called by the tree.
destroy_node ==
    /\ popup = "alive"
    /\ display_link' = FALSE /\ workspace_link' = FALSE
    /\ ws_stacked' = 0 /\ root_stacked' = 0
    /\ plast' = [op |-> "destroy_node", buffer |-> FALSE, linked |-> workspace_link, ret |-> "ok"]
    /\ UNCHANGED <<parent, parent_ws, parent_abs, positioner, relative_position,
                   absolute_desired_extents, popup_done, popup, pmoves>>

\* XdgPopup::destroy, lines 189-202: no guard is alive when destroy_node runs.
popup_destroy ==
    /\ popup = "alive"
    /\ ~destroy_node_panics({})
    /\ parent' = FALSE
    /\ display_link' = FALSE /\ workspace_link' = FALSE
    /\ ws_stacked' = 0 /\ root_stacked' = 0
    /\ popup' = "destroyed"
    /\ plast' = [op |-> "destroy", buffer |-> FALSE, linked |-> workspace_link, ret |-> "ok"]
    /\ UNCHANGED <<parent_ws, parent_abs, positioner, relative_position,
                   absolute_desired_extents, popup_done, pmoves>>

\* Object::break_loops, lines 262-267.
popup_break_loops ==
    /\ popup = "alive"
    /\ ~destroy_node_panics({})
    /\ parent' = FALSE
    /\ display_link' = FALSE /\ workspace_link' = FALSE
    /\ ws_stacked' = 0 /\ root_stacked' = 0
    /\ plast' = [op |-> "break_loops", buffer |-> FALSE, linked |-> workspace_link, ret |-> "ok"]
    /\ UNCHANGED <<parent_ws, parent_abs, positioner, relative_position,
                   absolute_desired_extents, popup_done, popup, pmoves>>

(***************************************************************************)
(* XdgPopup::post_commit, lines 334-359, for a surface with or without a   *)
(* buffer.  The guards wl and dl of lines 335-336 live to the end of the   *)
(* function.  With a buffer and no link the popup is linked into the two   *)
(* stacks; without a buffer wl.take() drops the workspace link, and        *)
(* destroy_node then runs under both guards.                               *)
(***************************************************************************)
post_commit(buffer) ==
    LET held == {"workspace_link", "display_link"}
        has_ws == parent /\ parent_ws
        map == has_ws /\ buffer /\ ~workspace_link
        unmap == has_ws /\ ~buffer /\ workspace_link
        panics == unmap /\ destroy_node_panics(held)
    IN /\ popup = "alive"
       /\ workspace_link' = IF map THEN TRUE ELSE IF unmap THEN FALSE ELSE workspace_link
       /\ ws_stacked' = IF map THEN ws_stacked + 1 ELSE IF unmap THEN ws_stacked - 1
                        ELSE ws_stacked
       /\ display_link' = IF map THEN TRUE ELSE IF unmap /\ ~panics THEN FALSE
                          ELSE display_link
       /\ root_stacked' = IF map THEN root_stacked + 1
                          ELSE IF unmap /\ ~panics THEN root_stacked - 1 ELSE root_stacked
       /\ popup_done' = IF unmap /\ ~panics THEN popup_done + 1 ELSE popup_done
       /\ popup' = IF panics THEN "panicked" ELSE popup
       /\ plast' = [op |-> "post_commit", buffer |-> buffer, linked |-> has_ws /\ workspace_link,
                    ret |-> IF panics THEN "panic" ELSE "ok"]
       /\ UNCHANGED <<parent, parent_ws, parent_abs, positioner, relative_position,
                      absolute_desired_extents, pmoves>>

InitPopup ==
    /\ parent \in BOOLEAN /\ parent_ws \in BOOLEAN /\ parent_abs \in ParentRects
    /\ positioner \in Positioners
    /\ relative_position = NoRect /\ absolute_desired_extents = NoRect
    /\ display_link = FALSE /\ workspace_link = FALSE
    /\ ws_stacked = 0 /\ root_stacked = 0
    /\ popup_done = 0
    /\ popup = "alive"
    /\ plast = NoPopupOp
    /\ pmoves = 0

NextPopup ==
    \/ initial_configure /\ OnlyPopup
    \/ \E p \in Positioners : reposition(p) /\ OnlyPopup
    \/ \E r \in ParentRects, ws \in BOOLEAN : parent_changed(r, ws) /\ OnlyPopup
    \/ update_absolute_position /\ OnlyPopup
    \/ destroy_node /\ OnlyPopup
    \/ popup_destroy /\ OnlyPopup
    \/ popup_break_loops /\ OnlyPopup
    \/ \E buffer \in BOOLEAN : post_commit(buffer) /\ OnlyPopup

InitXdgPopup ==
    InitPopup /\ IdleAlloc /\ IdleAcc /\ IdleSel /\ IdleCfg /\ IdleDbus /\ IdleInput /\ IdleBackend

SpecPopup == InitXdgPopup /\ [][NextPopup]_vars

\* C35: a mapped popup (workspace link present, parent on a workspace) that
\* commits without a buffer: post_commit removes the workspace link and the
\* display link, sends one popup_done, and takes no mutable borrow of a link
\* cell while another borrow of it is alive (it does not panic).
C35_UnmapCompletes ==
    (plast.op = "post_commit" /\ ~plast.buffer /\ plast.linked) =>
        /\ ~workspace_link /\ ~display_link
        /\ popup_done >= 1
        /\ plast.ret = "ok" /\ popup = "alive"

\* C36: after any sequence of post_commit, destroy, destroy_node and
\* break_loops the workspace link is present exactly if the display link is,
\* the popup is in each stack at most once, and after destroy or break_loops
\* both links are absent.
C36_LinksTogether ==
    /\ workspace_link <=> display_link
    /\ ws_stacked = (IF workspace_link THEN 1 ELSE 0)
    /\ root_stacked = (IF display_link THEN 1 ELSE 0)
    /\ plast.op \in {"destroy", "break_loops"} => ~workspace_link /\ ~display_link

\* C37: after update_position, whichever of the flip, slide and resize
\* adjustments applied, the absolute desired extents are the stored relative
\* position moved by the parent's absolute origin (x1, y1), with the same
\* width and height.
C37_AbsoluteIsRelativeMoved ==
    (plast.op \in {"initial_configure", "reposition"} /\ plast.ret \notin {"none", "panic"}) =>
        /\ absolute_desired_extents[1] = relative_position[1] + parent_abs[1]
        /\ absolute_desired_extents[2] = relative_position[2] + parent_abs[2]
        /\ absolute_desired_extents[3] - absolute_desired_extents[1]
             = relative_position[3] - relative_position[1]
        /\ absolute_desired_extents[4] - absolute_desired_extents[2]
             = relative_position[4] - relative_position[2]

\* update_position has flipped, slid and resized the popup of a parent that
\* is on a workspace.
C37_Witness ==
    /\ plast.op = "reposition" /\ plast.ret = "resize"
    /\ parent_ws
    /\ relative_position # get_position(positioner, FALSE, FALSE)
    /\ relative_position # flipped(positioner, parent_abs)
    /\ relative_position # slid(positioner, parent_abs, flipped(positioner, parent_abs))
    /\ flipped(positioner, parent_abs) # get_position(positioner, FALSE, FALSE)

(***************************************************************************)
(* src/src/ifs/jay_input.rs                                                *)
(***************************************************************************)
MaxInputReqs == 3

SeatNames == {"seat0", "seat1"}

InputIds == {1, 2}

\* The setters of a seat and of a device that only look their target up and
\* store the value of the request.
SeatProps == {"hardware_cursor", "cursor_size"}

DeviceProps == {"accel_speed", "tap_enabled", "drag_enabled", "drag_lock_enabled",
                "left_handed", "natural_scrolling_enabled", "px_per_scroll_wheel",
                "transform_matrix"}

NewSeat == [rate |-> 25, delay |-> 250, keymap |-> 0, hardware_cursor |-> 0, cursor_size |-> 0]

NewDevice == [seat |-> "", accel_profile |-> "Adaptive", accel_speed |-> 0, tap_enabled |-> 0,
              drag_enabled |-> 0, drag_lock_enabled |-> 0, left_handed |-> 0,
              natural_scrolling_enabled |-> 0, px_per_scroll_wheel |-> 0,
              transform_matrix |-> 0]

InitInput ==
    /\ \E S \in SUBSET SeatNames : seat_state = [n \in S |-> NewSeat]
    /\ \E D \in SUBSET InputIds : dev_state = [d \in D |-> NewDevice]
    /\ ierrors = 0 /\ ievents = 0
    /\ ilast = NoInputReq
    /\ ireqs = 0

\* JayInput::seat, lines 37-44, and JayInput::device, lines 134-140: the
\* error of the lookup.
seat(sname) == IF sname \in DOMAIN seat_state THEN "none" ELSE "SeatDoesNotExist"

device(id) == IF id \in DOMAIN dev_state THEN "none" ELSE "DeviceDoesNotExist"

\* or_error that hands the error of the closure to the dispatcher.
or_error_Propagates(op, err, nev) ==
    /\ ireqs < MaxInputReqs
    /\ ireqs' = ireqs + 1
    /\ ierrors' = ierrors
    /\ ievents' = IF err = "none" THEN ievents + nev ELSE ievents
    /\ ilast' = [op |-> op, ret |-> IF err = "none" THEN "Ok" ELSE "Err", err |-> err]

\* JayInput::or_error, lines 46-51, around a closure that fails with err or
\* sends nev: the error is sent as an error event and Ok(()) is returned.
or_error(op, err, nev) ==
    /\ ireqs < MaxInputReqs
    /\ ireqs' = ireqs + 1
    /\ ierrors' = IF err = "none" THEN ierrors ELSE ierrors + 1
    /\ ievents' = IF err = "none" THEN ievents + nev ELSE ievents
    /\ ilast' = [op |-> op, ret |-> "Ok", err |-> err]

\* set_repeat_rate, lines 162-174.
set_repeat_rate(sname, rate, delay) ==
    LET err == IF rate < 0 THEN "NegativeRepeatRate"
               ELSE IF delay < 0 THEN "NegativeRepeatDelay"
               ELSE seat(sname)
    IN /\ or_error("set_repeat_rate", err, 0)
       /\ seat_state' = IF err = "none"
                        THEN [seat_state EXCEPT ![sname].rate = rate, ![sname].delay = delay]
                        ELSE seat_state
       /\ UNCHANGED dev_state

\* set_keymap, lines 176-186: the client memory is read before or_error, and
\* its error goes to the dispatcher.
set_keymap(sname, mem_ok, map_ok) ==
    LET err == IF ~map_ok THEN "XkbCommonError" ELSE seat(sname)
    IN IF ~mem_ok
       THEN /\ ireqs < MaxInputReqs
            /\ ireqs' = ireqs + 1
            /\ ilast' = [op |-> "set_keymap", ret |-> "Err", err |-> "ClientMemError"]
            /\ UNCHANGED <<seat_state, dev_state, ierrors, ievents>>
       ELSE /\ or_error("set_keymap", err, 0)
            /\ seat_state' = IF err = "none" THEN [seat_state EXCEPT ![sname].keymap = 1]
                             ELSE seat_state
            /\ UNCHANGED dev_state

\* use_hardware_cursor, lines 188-198, and set_cursor_size, lines 306-312.
seat_request(prop, sname, v) ==
    /\ or_error(prop, seat(sname), 0)
    /\ seat_state' = IF seat(sname) = "none" THEN [seat_state EXCEPT ![sname][prop] = v]
                     ELSE seat_state
    /\ UNCHANGED dev_state

\* get_keymap, lines 200-206.
JayInput_get_keymap(sname) ==
    /\ or_error("get_keymap", seat(sname), 1)
    /\ UNCHANGED <<seat_state, dev_state>>

\* set_accel_profile, lines 208-219.
set_accel_profile(id, profile) ==
    LET err == IF device(id) # "none" THEN device(id)
               ELSE IF profile \notin {"Flat", "Adaptive"} THEN "UnknownAccelerationProfile"
               ELSE "none"
    IN /\ or_error("set_accel_profile", err, 0)
       /\ dev_state' = IF err = "none" THEN [dev_state EXCEPT ![id].accel_profile = profile]
                       ELSE dev_state
       /\ UNCHANGED seat_state

\* set_accel_speed .. set_transform_matrix, lines 221-304.
device_request(prop, id, v) ==
    /\ or_error(prop, device(id), 0)
    /\ dev_state' = IF device(id) = "none" THEN [dev_state EXCEPT ![id][prop] = v]
                    ELSE dev_state
    /\ UNCHANGED seat_state

\* attach, lines 314-321.
JayInput_attach(sname, id) ==
    LET err == IF seat(sname) # "none" THEN seat(sname) ELSE device(id)
    IN /\ or_error("attach", err, 0)
       /\ dev_state' = IF err = "none" THEN [dev_state EXCEPT ![id].seat = sname] ELSE dev_state
       /\ UNCHANGED seat_state

\* detach, lines 323-329.
JayInput_detach(id) ==
    /\ or_error("detach", device(id), 0)
    /\ dev_state' = IF device(id) = "none" THEN [dev_state EXCEPT ![id].seat = ""]
                    ELSE dev_state
    /\ UNCHANGED seat_state

\* get_seat, lines 331-344: the seat and every device attached to it.
JayInput_get_seat(sname) ==
    /\ or_error("get_seat", seat(sname),
                1 + Cardinality({d \in DOMAIN dev_state : dev_state[d].seat = sname}))
    /\ UNCHANGED <<seat_state, dev_state>>

\* get_device, lines 346-361.
get_device(id) ==
    /\ or_error("get_device", device(id), 1)
    /\ UNCHANGED <<seat_state, dev_state>>

NextInput ==
    \/ \E n \in SeatNames, r \in {-1, 40}, d \in {-1, 400} :
         set_repeat_rate(n, r, d) /\ OnlyInput
    \/ \E n \in SeatNames, mem_ok \in BOOLEAN, map_ok \in BOOLEAN :
         set_keymap(n, mem_ok, map_ok) /\ OnlyInput
    \/ \E prop \in SeatProps, n \in SeatNames : seat_request(prop, n, 1) /\ OnlyInput
    \/ \E n \in SeatNames : JayInput_get_keymap(n) /\ OnlyInput
    \/ \E id \in InputIds, profile \in {"Flat", "Adaptive", "other"} :
         set_accel_profile(id, profile) /\ OnlyInput
    \/ \E prop \in DeviceProps, id \in InputIds : device_request(prop, id, 1) /\ OnlyInput
    \/ \E n \in SeatNames, id \in InputIds : JayInput_attach(n, id) /\ OnlyInput
    \/ \E id \in InputIds : JayInput_detach(id) /\ OnlyInput
    \/ \E n \in SeatNames : JayInput_get_seat(n) /\ OnlyInput
    \/ \E id \in InputIds : get_device(id) /\ OnlyInput

InitJayInput ==
    InitInput /\ IdleAlloc /\ IdleAcc /\ IdleSel /\ IdleCfg /\ IdleDbus /\ IdlePopup /\ IdleBackend

SpecInput == InitJayInput /\ [][NextInput]_vars

\* C38: every request of JayInput that runs through or_error returns Ok to
\* the dispatcher; when it fails (unknown seat, unknown device, negative
\* repeat rate or delay, unknown acceleration profile, keymap that does not
\* parse) exactly one error event is sent, no other event, and the state of
\* every seat and device is unchanged; when it succeeds no error event is
\* sent.
C38_OrErrorReturnsOk ==
    [][(ireqs' # ireqs /\ ilast'.err # "ClientMemError") =>
          /\ ilast'.ret = "Ok"
          /\ ilast'.err # "none" =>
               /\ ierrors' = ierrors + 1 /\ ievents' = ievents
               /\ UNCHANGED <<seat_state, dev_state>>
          /\ ilast'.err = "none" => ierrors' = ierrors]_vars

\* attach named a seat that exists and a device that does not, after a
\* request that succeeded.
C38_Witness ==
    /\ ilast.op = "attach" /\ ilast.err = "DeviceDoesNotExist" /\ ilast.ret = "Ok"
    /\ ierrors = 1 /\ ireqs = 3
    /\ DOMAIN seat_state # {}

\* A ParseKeymap request has been handled in this step.
ParseKeymapStep ==
    /\ creq'.op = "ParseKeymap"
    /\ <<creq, responses, keymaps, next_id>>' # <<creq, responses, keymaps, next_id>>

\* C39: every ParseKeymap request produces exactly one ParseKeymap response.
\* When the keymap parses, the response carries an id that is not INVALID and
\* was never issued before, and the keymap is stored under it; when it does
\* not, the response carries INVALID, no keymap is stored, no id is consumed
\* and handle_request logs the error.  After a failure later requests are
\* still handled.
C39_ParseKeymapAnswersOnce ==
    /\ [][ParseKeymapStep =>
            LET r == responses'[Len(responses')]
            IN /\ Len(responses') = Len(responses) + 1
               /\ \A i \in 1..Len(responses) : responses'[i] = responses[i]
               /\ r.response = "ParseKeymap"
               /\ creq'.ret = "Ok" =>
                    /\ r.id # KeymapInvalid
                    /\ r.id \notin keymaps
                    /\ \A i \in 1..Len(responses) :
                         responses[i].response = "ParseKeymap" => responses[i].id # r.id
                    /\ keymaps' = keymaps \cup {r.id}
                    /\ next_id' > next_id
                    /\ ~creq'.logged
               /\ creq'.ret # "Ok" =>
                    /\ r.id = KeymapInvalid
                    /\ creq'.logged
                    /\ UNCHANGED <<keymaps, next_id>>]_vars
    /\ []((creq.op = "ParseKeymap" /\ creq.ret # "Ok") =>
            /\ ENABLED (handle_log_request /\ OnlyCfg)
            /\ Len(responses) < MaxResponses => ENABLED (handle_parse_keymap(TRUE) /\ OnlyCfg))

\* A keymap that parsed got the first id, and the next one did not parse.
C39_Witness ==
    /\ creq.op = "ParseKeymap" /\ creq.ret = "ParsingFailed" /\ creq.logged
    /\ Len(responses) = 2
    /\ responses[1] = [response |-> "ParseKeymap", id |-> FirstId]
    /\ responses[2] = [response |-> "ParseKeymap", id |-> KeymapInvalid]
    /\ keymaps = {FirstId}
    /\ next_id = FirstId + 1

(***************************************************************************)
(* src/src/tasks/start_backend.rs                                          *)
(***************************************************************************)
MaxTicks == 10

\* Errors of XorgBackend::new and of metal::run.
XorgErrors == {"CannotConnect", "MissingExtension", "NoScreen"}

MetalErrors == {"NoSession", "NoDrmDevice", "LibInput"}

MetalStarted ==
    \E i \in 1..Len(blog) : blog[i].msg = "Trying to start metal backend"

\* start_backend that goes on to the metal backend whatever XorgBackend::new
\* returned.
start_backend_xorg_FallsThrough(res) ==
    /\ bpc = "start"
    /\ x_err' = IF res = "Ok" THEN x_err ELSE res
    /\ bpc' = "metal"
    /\ blog' = blog \o <<[level |-> "info", msg |-> "Trying to start X backend", e |-> "none"],
                         [level |-> "warn", msg |-> "Could not start X backend", e |-> res],
                         [level |-> "info", msg |-> "Trying to start metal backend",
                          e |-> "none"]>>
    /\ UNCHANGED <<metal_err, ticks, el_stopped>>

\* start_backend, lines 6-13, to its first await: XorgBackend::new returns
\* Ok and the task waits in pending(), or it returns an error and
\* metal::run is called.
start_backend_xorg(res) ==
    /\ bpc = "start"
    /\ x_err' = IF res = "Ok" THEN x_err ELSE res
    /\ bpc' = IF res = "Ok" THEN "pending" ELSE "metal"
    /\ blog' = blog \o <<[level |-> "info", msg |-> "Trying to start X backend", e |-> "none"]>>
                    \o (IF res = "Ok" THEN <<>>
                        ELSE <<[level |-> "warn", msg |-> "Could not start X backend",
                                e |-> res],
                               [level |-> "info", msg |-> "Trying to start metal backend",
                                e |-> "none"]>>)
    /\ UNCHANGED <<metal_err, ticks, el_stopped>>

\* Line 8: pending() is polled and is never ready; line 13: metal::run is
\* polled and has not returned.
start_backend_poll ==
    /\ bpc \in {"pending", "metal"}
    /\ ticks < MaxTicks
    /\ ticks' = ticks + 1
    /\ UNCHANGED <<bpc, x_err, metal_err, el_stopped, blog>>

\* Lines 13-16: metal::run returns its error, and the event loop is stopped.
start_backend_metal_returned(e) ==
    /\ bpc = "metal"
    /\ metal_err' = e
    /\ blog' = blog \o <<[level |-> "error", msg |-> "Metal backend failed", e |-> e],
                         [level |-> "warn", msg |-> "Shutting down", e |-> "none"]>>
    /\ el_stopped' = TRUE
    /\ bpc' = "returned"
    /\ UNCHANGED <<x_err, ticks>>

NextBackend ==
    \/ \E res \in {"Ok"} \cup XorgErrors : start_backend_xorg(res) /\ OnlyBackend
    \/ start_backend_poll /\ OnlyBackend
    \/ \E e \in MetalErrors : start_backend_metal_returned(e) /\ OnlyBackend

InitStartBackend ==
    IdleBackend /\ IdleAlloc /\ IdleAcc /\ IdleSel /\ IdleCfg /\ IdleDbus /\ IdlePopup
    /\ IdleInput

SpecBackend == InitStartBackend /\ [][NextBackend]_vars

\* C40: start_backend stops the event loop only after the X backend failed
\* to start and the metal backend then returned.  If the X backend starts,
\* the metal backend is never run and the task never stops the loop; the
\* metal backend is not started before the attempt to start X has failed.
C40_StopOnlyAfterBoth ==
    /\ [](el_stopped => x_err # "none" /\ metal_err # "none" /\ MetalStarted)
    /\ [](MetalStarted => x_err # "none")
    /\ [](metal_err # "none" => MetalStarted)
    /\ [][bpc = "pending" => bpc' = "pending" /\ ~el_stopped' /\ ~MetalStarted']_vars
    /\ [][el_stopped' /\ ~el_stopped => bpc = "metal" /\ x_err # "none"]_vars

\* The X backend did not start, the metal backend ran for a while and
\* returned, and the loop was stopped.
C40_Witness ==
    /\ el_stopped /\ bpc = "returned"
    /\ x_err \in XorgErrors /\ metal_err \in MetalErrors
    /\ ticks > 0
====
